---- MODULE Spec2Model ----
(***************************************************************************)
(* Model of the two client-side state engines of GP_front_end_ts:          *)
(*   - the graph explorer (component ProductGraph, ProductsClient.tsx),    *)
(*   - the chat session engine (component AgentConsole, AgentConsole.tsx). *)
(* One step of the model is one handler run to completion followed by the  *)
(* re-render that applies its state updates.                               *)
(***************************************************************************)
EXTENDS Integers, Sequences, FiniteSets, TLC

(***************************************************************************)
(* Bounds                                                                  *)
(***************************************************************************)
\* number of fetchGraph invocations explored in one behaviour
MaxFetches == 2

\* number of streaming connections opened in one behaviour
MaxSends == 2

\* number of token, trace and meta events delivered in one behaviour
MaxEvents == 2

\* number of fetch calls of the history panel in one behaviour
MaxRequests == 3

\* number of messages in a session of the history
MaxHistory == 3

\* number of fetch calls of the history panel in one behaviour of deletions
MaxDeleteRequests == 4

(***************************************************************************)
(* JavaScript values                                                       *)
(***************************************************************************)
\* null / undefined / an absent property of a JSON object
Null == "<null>"

\* JavaScript truthiness of a string-or-null value (`a || b`, `if (a)`)
Falsy(v) == v \in {Null, ""}

(***************************************************************************)
(* Graph explorer: data model                                              *)
(***************************************************************************)
GraphNode(nid, ntype) == [id |-> nid, type |-> ntype]

GraphEdge(eid, src, tgt, etype) == [id |-> eid, source |-> src, target |-> tgt, type |-> etype]

GraphResponse(ns, es) == [nodes |-> ns, edges |-> es, null |-> FALSE]

\* useState<GraphResponse | null>(null)
NoData == [nodes |-> <<>>, edges |-> <<>>, null |-> TRUE]

\* the spec's scenario: nodes {A,B,C}, edges {A-B, B-C}, no edge id supplied
DChain ==
  GraphResponse(<<GraphNode("A", "company"), GraphNode("B", "company"), GraphNode("C", "patent")>>,
                <<GraphEdge(Null, "A", "B", "r"), GraphEdge(Null, "B", "C", "r")>>)

\* a smaller graph without node A; one node has no type, the edge has no type
DSmall ==
  GraphResponse(<<GraphNode("B", "company"), GraphNode("C", Null)>>,
                <<GraphEdge("e1", "B", "C", Null)>>)

\* an inconsistent graph: the second edge targets Z, which is not a node
DDangling ==
  GraphResponse(<<GraphNode("A", "company"), GraphNode("B", "company")>>,
                <<GraphEdge(Null, "A", "B", "r"), GraphEdge(Null, "A", "Z", "r")>>)

\* two edges carrying the same supplied id
DDupId ==
  GraphResponse(<<GraphNode("A", "company"), GraphNode("B", "patent"), GraphNode("C", "patent")>>,
                <<GraphEdge("x", "A", "B", "r"), GraphEdge("x", "A", "C", "r")>>)

\* two parallel edges without id (same derived id), and one with an empty id
DParallel ==
  GraphResponse(<<GraphNode("A", "company"), GraphNode("B", "company"), GraphNode("C", "patent")>>,
                <<GraphEdge(Null, "A", "B", "r"), GraphEdge(Null, "A", "B", "r"), GraphEdge("", "B", "C", "r")>>)

\* the responses the graph_view endpoint may give
Datasets == {DChain, DSmall, DDangling, DDupId, DParallel}

\* values of the `id` prop (the subject); the empty id is never fetched
Subjects == {"", "7", "8"}

\* `${edge.type}` inside a template string
TypeText(etype) == IF etype = Null THEN "undefined" ELSE etype

\* edge.id || `${edge.source}-${edge.type}-${edge.target}`
EdgeId(e) ==
  IF ~Falsy(e.id) THEN e.id
  ELSE e.source \o "-" \o TypeText(e.type) \o "-" \o e.target

\* the elements of a sequence, as a set
Range(s) == {s[i] : i \in 1..Len(s)}

NodeIdsOf(d) == {n.id : n \in Range(d.nodes)}

EdgeIdsOf(d) == {EdgeId(e) : e \in Range(d.edges)}

\* node.type || 'Unknown'
NodeTypeKey(n) == IF Falsy(n.type) THEN "Unknown" ELSE n.type

\* groupedEntities[type]: the nodes of one type, in dataset order
GroupedEntities(d, t) ==
  IF d.null THEN <<>> ELSE SelectSeq(d.nodes, LAMBDA n : NodeTypeKey(n) = t)

\* Object.keys(groupedEntities)
AvailableTypes(d) == IF d.null THEN {} ELSE {NodeTypeKey(n) : n \in Range(d.nodes)}

VARIABLES
  id,               \* prop `id` of ProductGraph
  fullData,         \* GraphResponse | null
  loading,
  error,
  selectedType,
  selectedEntityId,
  visibleNodeIds,
  visibleEdgeIds,
  contextMenu,      \* [visible, nodeId]
  pending,          \* graph_view requests awaiting their response
  fetchCount,       \* number of fetchGraph invocations so far
  lastOp,           \* the handler that ran last, with its argument
  prev              \* VisibleSet at the start of the handler that ran last

graphVars == <<id, fullData, loading, error, selectedType, selectedEntityId,
               visibleNodeIds, visibleEdgeIds, contextMenu, pending, fetchCount,
               lastOp, prev>>

VARIABLES
  messages,         \* the transcript: useState<ChatMessage[]>([])
  input,            \* the text of the input box
  isStreaming,
  streamBuffer,
  streamTraces,
  streamBufferRef,  \* streamBufferRef.current
  streamTracesRef,  \* streamTracesRef.current
  sessionId,
  eventSourceRef,   \* eventSourceRef.current: 0 for null, else a position in `sources`
  sources,          \* every EventSource created so far
  received,         \* the deltas of the token events of the EventSource created last
  eventCount,       \* number of token, trace and meta events delivered so far
  chatOp            \* the chat handler that ran last, and whether it went past its guard

VARIABLES
  activeSessionTitle,
  historyOpen,
  sessions,                \* the cached session list: useState<AgentSession[]>([])
  historyLoading,
  historyError,
  historyDetailLoadingId,
  historyDeletingId,
  requests,                \* the fetch calls of the history panel awaiting their response
  requestCount,            \* number of fetch calls of the history panel so far
  storage                  \* sessionStorage[AGENT_STORAGE_KEY]

historyVars == <<activeSessionTitle, historyOpen, sessions, historyLoading, historyError,
                 historyDetailLoadingId, historyDeletingId, requests, requestCount>>

chatVars == <<messages, input, isStreaming, streamBuffer, streamTraces,
              streamBufferRef, streamTracesRef, sessionId, eventSourceRef,
              sources, received, eventCount, chatOp, historyVars, storage>>

VARIABLES
  searchParams,     \* useSearchParams() of the result list: [page, page_size]
  listRequest       \* the query of the last GET /api/results of fetchList

resultVars == <<searchParams, listRequest>>

vars == <<graphVars, chatVars, resultVars>>

Op(name, arg, data) == [op |-> name, arg |-> arg, data |-> data]

VisibleSet == [nodes |-> visibleNodeIds, edges |-> visibleEdgeIds]

GraphInit(subjects) ==
  /\ id \in subjects
  /\ fullData = NoData
  /\ loading = FALSE
  /\ error = ""
  /\ selectedType = Null
  /\ selectedEntityId = Null
  /\ visibleNodeIds = {}
  /\ visibleEdgeIds = {}
  /\ contextMenu = [visible |-> FALSE, nodeId |-> Null]
  /\ pending = {}
  /\ fetchCount = 0
  /\ lastOp = Op("init", Null, NoData)
  /\ prev = [nodes |-> {}, edges |-> {}]

(***************************************************************************)
(* Graph explorer: operations                                              *)
(***************************************************************************)
\* the synchronous part of fetchGraph, up to the await
FetchGraphStart(subject, name) ==
  /\ fetchCount < MaxFetches
  /\ fetchCount' = fetchCount + 1
  /\ lastOp' = Op(name, subject, NoData)
  /\ prev' = VisibleSet
  /\ IF Falsy(subject)
       THEN UNCHANGED <<loading, error, selectedType, selectedEntityId,
                        visibleNodeIds, visibleEdgeIds, pending>>
       ELSE /\ loading' = TRUE
            /\ error' = ""
            /\ selectedType' = Null
            /\ selectedEntityId' = Null
            /\ visibleNodeIds' = {}
            /\ visibleEdgeIds' = {}
            /\ pending' = pending \cup {[n |-> fetchCount, id |-> subject]}
  /\ UNCHANGED <<fullData, contextMenu>>

\* the refresh button, and the mount effect: fetchGraph() with the current id
fetchGraph ==
  /\ FetchGraphStart(id, "fetchGraph")
  /\ UNCHANGED id
  /\ UNCHANGED <<chatVars, resultVars>>

\* the parent passes another id: useEffect(() => fetchGraph(), [id])
ChangeId ==
  \E subject \in Subjects \ {id} :
    /\ id' = subject
    /\ FetchGraphStart(subject, "changeId")
    /\ UNCHANGED <<chatVars, resultVars>>

\* the request r is answered with status OK and the body d
FetchGraphOk ==
  \E r \in pending, d \in Datasets :
    /\ pending' = pending \ {r}
    /\ fullData' = d
    /\ loading' = FALSE
    /\ lastOp' = Op("fetchOk", r.id, d)
    /\ prev' = VisibleSet
    /\ UNCHANGED <<id, error, selectedType, selectedEntityId, visibleNodeIds,
                   visibleEdgeIds, contextMenu, fetchCount>>
    /\ UNCHANGED <<chatVars, resultVars>>

ErrStatus == "request failed: 500"

ErrNetwork == "Failed to fetch"

\* the request r fails: a non-OK status, or fetch() / res.json() rejects
FetchGraphFail ==
  \E r \in pending, msg \in {ErrStatus, ErrNetwork} :
    /\ pending' = pending \ {r}
    /\ error' = msg
    /\ fullData' = NoData
    /\ loading' = FALSE
    /\ lastOp' = Op("fetchFail", r.id, NoData)
    /\ prev' = VisibleSet
    /\ UNCHANGED <<id, selectedType, selectedEntityId, visibleNodeIds,
                   visibleEdgeIds, contextMenu, fetchCount>>
    /\ UNCHANGED <<chatVars, resultVars>>

\* handleTypeClick selecting the type whatever was selected
ToggleType_AlwaysSelects(selected, t) == t

\* type === selectedType ? null : type
ToggleType(selected, t) == IF t = selected THEN Null ELSE t

handleTypeClick ==
  \E t \in AvailableTypes(fullData) :
    /\ selectedType' = ToggleType(selectedType, t)
    /\ lastOp' = Op("handleTypeClick", t, NoData)
    /\ prev' = VisibleSet
    /\ UNCHANGED <<id, fullData, loading, error, selectedEntityId, visibleNodeIds,
                   visibleEdgeIds, contextMenu, pending, fetchCount>>
    /\ UNCHANGED <<chatVars, resultVars>>

Touches(e, nodeId) == e.source = nodeId \/ e.target = nodeId

\* the forEach of handleEntityClick over the edges still to visit
RECURSIVE EntityClickLoop(_, _, _)
EntityClickLoop(edges, entityId, acc) ==
  IF edges = <<>> THEN acc
  ELSE LET edge == Head(edges) IN
       IF Touches(edge, entityId)
         THEN EntityClickLoop(Tail(edges), entityId,
                [nodes |-> acc.nodes \cup {edge.source, edge.target},
                 edges |-> acc.edges \cup {EdgeId(edge)}])
         ELSE EntityClickLoop(Tail(edges), entityId, acc)

\* handleEntityClick with the test `edge.target === entity.id` forgotten
RECURSIVE EntityClickLoop_SourceOnly(_, _, _)
EntityClickLoop_SourceOnly(edges, entityId, acc) ==
  IF edges = <<>> THEN acc
  ELSE LET edge == Head(edges) IN
       IF edge.source = entityId
         THEN EntityClickLoop_SourceOnly(Tail(edges), entityId,
                [nodes |-> acc.nodes \cup {edge.source, edge.target},
                 edges |-> acc.edges \cup {EdgeId(edge)}])
         ELSE EntityClickLoop_SourceOnly(Tail(edges), entityId, acc)

EntityClickResult_SourceOnly(d, entityId) ==
  EntityClickLoop_SourceOnly(d.edges, entityId, [nodes |-> {entityId}, edges |-> {}])

\* newVisibleNodes / newVisibleEdges of handleEntityClick
EntityClickResult(d, entityId) ==
  EntityClickLoop(d.edges, entityId, [nodes |-> {entityId}, edges |-> {}])

\* a click on a row of the entity column
handleEntityClick ==
  /\ ~Falsy(selectedType)
  /\ \E i \in 1..Len(GroupedEntities(fullData, selectedType)) :
       LET entity == GroupedEntities(fullData, selectedType)[i] IN
       /\ selectedEntityId' = entity.id
       /\ lastOp' = Op("handleEntityClick", entity.id, NoData)
       /\ prev' = VisibleSet
       /\ IF fullData.null
            THEN UNCHANGED <<visibleNodeIds, visibleEdgeIds, contextMenu>>
            ELSE /\ visibleNodeIds' = EntityClickResult(fullData, entity.id).nodes
                 /\ visibleEdgeIds' = EntityClickResult(fullData, entity.id).edges
                 /\ contextMenu' = [contextMenu EXCEPT !.visible = FALSE]
  /\ UNCHANGED <<id, fullData, loading, error, selectedType, pending, fetchCount>>
  /\ UNCHANGED <<chatVars, resultVars>>

\* the forEach of handleExpandNextLevel over the edges still to visit
RECURSIVE ExpandLoop(_, _, _)
ExpandLoop(edges, nodeId, acc) ==
  IF edges = <<>> THEN acc
  ELSE LET edge == Head(edges) IN
       IF Touches(edge, nodeId) /\ EdgeId(edge) \notin acc.edges
         THEN ExpandLoop(Tail(edges), nodeId,
                [nodes |-> acc.nodes \cup {edge.source, edge.target},
                 edges |-> acc.edges \cup {EdgeId(edge)},
                 added |-> TRUE])
         ELSE ExpandLoop(Tail(edges), nodeId, acc)

\* handleExpandNextLevel adding only the far end (edge.target) of a new edge
RECURSIVE ExpandLoop_TargetOnly(_, _, _)
ExpandLoop_TargetOnly(edges, nodeId, acc) ==
  IF edges = <<>> THEN acc
  ELSE LET edge == Head(edges) IN
       IF Touches(edge, nodeId) /\ EdgeId(edge) \notin acc.edges
         THEN ExpandLoop_TargetOnly(Tail(edges), nodeId,
                [nodes |-> acc.nodes \cup {edge.target},
                 edges |-> acc.edges \cup {EdgeId(edge)},
                 added |-> TRUE])
         ELSE ExpandLoop_TargetOnly(Tail(edges), nodeId, acc)

ExpandResult_TargetOnly(d, vis, nodeId) ==
  ExpandLoop_TargetOnly(d.edges, nodeId, [nodes |-> vis.nodes, edges |-> vis.edges, added |-> FALSE])

\* handleExpandNextLevel following the edges of every visible node, not only nodeId
RECURSIVE ExpandLoop_AnyVisible(_, _, _)
ExpandLoop_AnyVisible(edges, nodeId, acc) ==
  IF edges = <<>> THEN acc
  ELSE LET edge == Head(edges) IN
       IF (\E v \in acc.nodes \cup {nodeId} : Touches(edge, v)) /\ EdgeId(edge) \notin acc.edges
         THEN ExpandLoop_AnyVisible(Tail(edges), nodeId,
                [nodes |-> acc.nodes \cup {edge.source, edge.target},
                 edges |-> acc.edges \cup {EdgeId(edge)},
                 added |-> TRUE])
         ELSE ExpandLoop_AnyVisible(Tail(edges), nodeId, acc)

ExpandResult_AnyVisible(d, vis, nodeId) ==
  ExpandLoop_AnyVisible(d.edges, nodeId, [nodes |-> vis.nodes, edges |-> vis.edges, added |-> FALSE])

\* handleExpandNextLevel starting from fresh sets, as handleEntityClick does
ExpandResult_Reset(d, vis, nodeId) ==
  ExpandLoop(d.edges, nodeId, [nodes |-> {nodeId}, edges |-> {}, added |-> FALSE])

\* newVisibleNodes / newVisibleEdges / added of handleExpandNextLevel
ExpandResult(d, vis, nodeId) ==
  ExpandLoop(d.edges, nodeId, [nodes |-> vis.nodes, edges |-> vis.edges, added |-> FALSE])

\* the VisibleSet that handleExpandNextLevel(nodeId) leaves behind
ExpandVisible(d, vis, nodeId) ==
  IF d.null THEN vis
  ELSE LET res == ExpandResult(d, vis, nodeId) IN
       IF res.added THEN [nodes |-> res.nodes, edges |-> res.edges] ELSE vis

\* the "expand next level" entry of the context menu
handleExpandNextLevel ==
  /\ contextMenu.visible
  /\ ~Falsy(contextMenu.nodeId)
  /\ lastOp' = Op("handleExpandNextLevel", contextMenu.nodeId, NoData)
  /\ prev' = VisibleSet
  /\ visibleNodeIds' = ExpandVisible(fullData, VisibleSet, contextMenu.nodeId).nodes
  /\ visibleEdgeIds' = ExpandVisible(fullData, VisibleSet, contextMenu.nodeId).edges
  /\ contextMenu' = IF fullData.null THEN contextMenu
                    ELSE [contextMenu EXCEPT !.visible = FALSE]
  /\ UNCHANGED <<id, fullData, loading, error, selectedType, selectedEntityId,
                 pending, fetchCount>>
  /\ UNCHANGED <<chatVars, resultVars>>

\* the node part of `elements`
ElementNodes(d, vis) ==
  IF d.null THEN <<>>
  ELSE SelectSeq(d.nodes, LAMBDA n : n.id \in vis.nodes)

\* the edge part of `elements`; `...e` puts a supplied id over the derived one
ElementEdges(d, vis) ==
  IF d.null THEN <<>>
  ELSE LET shown == SelectSeq(d.edges, LAMBDA e : EdgeId(e) \in vis.edges) IN
       [i \in 1..Len(shown) |->
          [id |-> IF shown[i].id = Null THEN EdgeId(shown[i]) ELSE shown[i].id,
           source |-> shown[i].source,
           target |-> shown[i].target]]

\* the useMemo `elements`: [...nodes, ...edges]
elements == [nodes |-> ElementNodes(fullData, VisibleSet),
             edges |-> ElementEdges(fullData, VisibleSet)]

\* cy.on('cxttap', 'node'): a right click on a node drawn by Cytoscape
cxttap ==
  /\ ~loading
  /\ \E i \in 1..Len(elements.nodes) :
       contextMenu' = [visible |-> TRUE, nodeId |-> elements.nodes[i].id]
  /\ lastOp' = Op("cxttap", contextMenu'.nodeId, NoData)
  /\ prev' = VisibleSet
  /\ UNCHANGED <<id, fullData, loading, error, selectedType, selectedEntityId,
                 visibleNodeIds, visibleEdgeIds, pending, fetchCount>>
  /\ UNCHANGED <<chatVars, resultVars>>

\* onMouseLeave of the menu, a tap on the background, the "details" entry
closeContextMenu ==
  /\ contextMenu.visible
  /\ contextMenu' = [contextMenu EXCEPT !.visible = FALSE]
  /\ lastOp' = Op("closeContextMenu", Null, NoData)
  /\ prev' = VisibleSet
  /\ UNCHANGED <<id, fullData, loading, error, selectedType, selectedEntityId,
                 visibleNodeIds, visibleEdgeIds, pending, fetchCount>>
  /\ UNCHANGED <<chatVars, resultVars>>

(***************************************************************************)
(* Chat session engine: data model                                         *)
(* A text is a sequence of characters.                                     *)
(***************************************************************************)
\* an optional array-valued property: absent, or present with value v
Undefined == <<>>

Some(v) == <<v>>

WhiteSpace == {" ", "\t", "\n"}

\* String.prototype.trim
RECURSIVE TrimStart(_)
TrimStart(text) ==
  IF text # <<>> /\ Head(text) \in WhiteSpace THEN TrimStart(Tail(text)) ELSE text

RECURSIVE TrimEnd(_)
TrimEnd(text) ==
  IF text # <<>> /\ text[Len(text)] \in WhiteSpace
    THEN TrimEnd(SubSeq(text, 1, Len(text) - 1))
    ELSE text

Trim(text) == TrimEnd(TrimStart(text))

\* the literal of finalizeAgentMessage and mapHistoryMessages (an empty response)
EmptyResponseText == <<"(", "e", "m", "p", "t", "y", ")">>

\* the literal of es.onerror (connection failed, retry later)
ConnectionFailedText == <<"f", "a", "i", "l", "e", "d">>

\* the synthetic trace item of es.onerror
ErrorTrace == [step |-> "stream connection failed", stage |-> "error", level |-> "error"]

ChatMessage(role, text, citations, traces) ==
  [role |-> role, text |-> text, citations |-> citations, traces |-> traces]

\* what may be typed into the input box
Inputs == {<<>>, <<" ", "\t">>, <<" ", "h", "i", " ">>}

\* texts handed to sendQuickMessage
QuickTexts == {<<" ">>, <<"h", "i">>}

\* payload.delta of a token event
Deltas == {<<>>, <<"H", "e", "l">>, <<"l", "o">>, EmptyResponseText}

\* the payload of a trace event
TracePayloads ==
  {[step |-> "", stage |-> Null, level |-> "info"],
   [step |-> "plan", stage |-> "tool", level |-> "info"]}

\* the payload of a meta event
MetaPayloads ==
  {[label |-> "session_id", value |-> "s1"],
   [label |-> "session_id", value |-> ""],
   [label |-> "title", value |-> "s2"]}

\* the payload of a done event: citations and trace are optional
DonePayloads ==
  {[citations |-> Undefined, trace |-> Undefined],
   [citations |-> Undefined, trace |-> Some(<<>>)],
   [citations |-> Some(<<"doc1">>),
    trace |-> Some(<<[step |-> "answer", stage |-> "final", level |-> "info"]>>)]}

ChatOp(name, accepted) == [op |-> name, accepted |-> accepted]

\* a listener that ran last, with the payload of its event
EventOp(name, payload) == [op |-> name, accepted |-> TRUE, payload |-> payload]

\* sessionStorage.getItem(AGENT_STORAGE_KEY) is null: nothing is stored
NoItem == [item |-> "none"]

\* a stored text that JSON.parse rejects
Unparseable == [item |-> "text"]

\* the item stored by JSON.stringify({ messages, sessionId, activeSessionTitle }),
\* as JSON.parse reads it back
Snapshot(m, s, t) ==
  [item |-> "json", messages |-> m, sessionId |-> s, activeSessionTitle |-> t]

\* values a stored item may hold where the console never writes them: a
\* `messages` that is no array, a null entry of `messages`, a text that is a
\* number, a session id or title that is a number
NotAnArray == <<[type |-> "string"]>>

NullEntry == [null |-> TRUE]

NumberText == <<"<number>">>

NumberId == "<number>"

\* typeof v === 'string', for a session id or a title
IsString(v) == v \notin {Null, NumberId}

\* the filter of the restoring effect
IsSafeMessage(item) ==
  /\ item # NullEntry
  /\ item.role \in {"user", "agent"}
  /\ item.text # NumberText

\* the three fields that are persisted
Persisted(m, s, t) == [messages |-> m, sessionId |-> s, activeSessionTitle |-> t]

\* the values of useState of the three fields
FirstRender == Persisted(<<>>, Null, Null)

\* the state left by the restoring effect run on the stored item raw
restore(raw) ==
  IF raw.item # "json" THEN FirstRender
  ELSE LET safeMessages == IF raw.messages = NotAnArray THEN <<>>
                           ELSE SelectSeq(raw.messages, IsSafeMessage) IN
       Persisted(IF Len(safeMessages) > 0 THEN safeMessages ELSE FirstRender.messages,
                 IF IsString(raw.sessionId) THEN raw.sessionId ELSE FirstRender.sessionId,
                 IF IsString(raw.activeSessionTitle) THEN raw.activeSessionTitle
                   ELSE FirstRender.activeSessionTitle)

\* the effects of the first commit in the opposite order: the persisting effect
\* stores the first render before the restoring effect reads the item
StartUp_PersistFirst(raw) ==
  LET written == Snapshot(FirstRender.messages, FirstRender.sessionId,
                          FirstRender.activeSessionTitle)
      state == restore(written) IN
  [state |-> state,
   storage |-> IF state = FirstRender THEN written
               ELSE Snapshot(state.messages, state.sessionId, state.activeSessionTitle)]

\* the effects of the first commit, in the order of their declaration: the
\* restoring effect reads the item, the persisting effect stores the first
\* render, and the render caused by the setters of the restoring effect, if
\* any was called, stores the restored state
StartUp(raw) ==
  LET state == restore(raw)
      written == Snapshot(FirstRender.messages, FirstRender.sessionId,
                          FirstRender.activeSessionTitle) IN
  [state |-> state,
   storage |-> IF state = FirstRender THEN written
               ELSE Snapshot(state.messages, state.sessionId, state.activeSessionTitle)]

\* the console has just been mounted on the stored item raw
MountOp(raw) == [op |-> "init", accepted |-> FALSE, raw |-> raw]

\* the effect on [messages, sessionId, activeSessionTitle], run after the
\* render that follows a handler which has set one of them
Persist == storage' = Snapshot(messages', sessionId', activeSessionTitle')

\* the console after its first commit, mounted on the stored item raw
Mounted(raw) ==
  /\ messages = StartUp(raw).state.messages
  /\ input = <<>>
  /\ isStreaming = FALSE
  /\ streamBuffer = <<>>
  /\ streamTraces = <<>>
  /\ streamBufferRef = <<>>
  /\ streamTracesRef = <<>>
  /\ sessionId = StartUp(raw).state.sessionId
  /\ eventSourceRef = 0
  /\ sources = <<>>
  /\ received = <<>>
  /\ eventCount = 0
  /\ chatOp = MountOp(raw)
  /\ activeSessionTitle = StartUp(raw).state.activeSessionTitle
  /\ historyOpen = FALSE
  /\ sessions = <<>>
  /\ historyLoading = FALSE
  /\ historyError = ""
  /\ historyDetailLoadingId = Null
  /\ historyDeletingId = Null
  /\ requests = {}
  /\ requestCount = 0
  /\ storage = StartUp(raw).storage

\* the console opened in a tab that has stored nothing yet
ChatInit == Mounted(NoItem)

(***************************************************************************)
(* Chat session engine: operations                                         *)
(***************************************************************************)
\* canSend without the test of isStreaming
canSend_IgnoresStreaming == Len(Trim(input)) > 0

\* useMemo(() => input.trim().length > 0 && !isStreaming)
canSend == Len(Trim(input)) > 0 /\ ~isStreaming

\* `sources` after eventSourceRef.current?.close()
CloseCurrent ==
  IF eventSourceRef = 0 THEN sources
  ELSE [sources EXCEPT ![eventSourceRef].open = FALSE]

\* setIsStreaming(true) forgotten in startSSEStream
startSSEStream_StaysIdle(query) ==
  /\ streamBufferRef' = <<>>
  /\ streamTracesRef' = <<>>
  /\ streamBuffer' = <<>>
  /\ streamTraces' = <<>>
  /\ sources' = Append(CloseCurrent,
                       [message |-> query,
                        session_id |-> IF Falsy(sessionId) THEN Null ELSE sessionId,
                        open |-> TRUE])
  /\ received' = <<>>
  /\ eventSourceRef' = Len(sources) + 1
  /\ isStreaming' = isStreaming

\* startSSEStream never attaching the session id
startSSEStream_NoSessionId(query) ==
  /\ streamBufferRef' = <<>>
  /\ streamTracesRef' = <<>>
  /\ streamBuffer' = <<>>
  /\ streamTraces' = <<>>
  /\ sources' = Append(CloseCurrent, [message |-> query, session_id |-> Null, open |-> TRUE])
  /\ received' = <<>>
  /\ eventSourceRef' = Len(sources) + 1
  /\ isStreaming' = TRUE

\* startSSEStream(query): stopStream(), then a new EventSource
startSSEStream(query) ==
  /\ streamBufferRef' = <<>>
  /\ streamTracesRef' = <<>>
  /\ streamBuffer' = <<>>
  /\ streamTraces' = <<>>
  /\ sources' = Append(CloseCurrent,
                       [message |-> query,
                        session_id |-> IF Falsy(sessionId) THEN Null ELSE sessionId,
                        open |-> TRUE])
  /\ received' = <<>>
  /\ eventSourceRef' = Len(sources) + 1
  /\ isStreaming' = TRUE

\* onChange of the input box
setInput ==
  \E v \in Inputs \ {input} :
    /\ input' = v
    /\ chatOp' = ChatOp("setInput", TRUE)
    /\ UNCHANGED <<messages, isStreaming, streamBuffer, streamTraces, streamBufferRef,
                   streamTracesRef, sessionId, eventSourceRef, sources, received,
                   eventCount>>
    /\ UNCHANGED <<historyVars, storage>>
    /\ UNCHANGED <<graphVars, resultVars>>

\* the send button and the Enter key
handleSend ==
  /\ canSend => Len(sources) < MaxSends
  /\ chatOp' = ChatOp("handleSend", canSend)
  /\ IF ~canSend
       THEN UNCHANGED <<messages, input, isStreaming, streamBuffer, streamTraces,
                        streamBufferRef, streamTracesRef, eventSourceRef, sources,
                        received, storage>>
       ELSE /\ messages' = Append(messages, ChatMessage("user", Trim(input), Undefined, Undefined))
            /\ input' = <<>>
            /\ startSSEStream(Trim(input))
            /\ storage' = Snapshot(messages', sessionId, activeSessionTitle)
  /\ UNCHANGED <<sessionId, eventCount, historyVars>>
  /\ UNCHANGED <<graphVars, resultVars>>

\* sendQuickMessage(text) for a text among `texts`
sendQuickMessageOf(texts) ==
  \E text \in texts :
    LET rejected == Trim(text) = <<>> \/ isStreaming IN
    /\ ~rejected => Len(sources) < MaxSends
    /\ chatOp' = ChatOp("sendQuickMessage", ~rejected)
    /\ IF rejected
         THEN UNCHANGED <<messages, isStreaming, streamBuffer, streamTraces,
                          streamBufferRef, streamTracesRef, eventSourceRef, sources,
                          received, storage>>
         ELSE /\ messages' = Append(messages, ChatMessage("user", text, Undefined, Undefined))
              /\ startSSEStream(Trim(text))
              /\ storage' = Snapshot(messages', sessionId, activeSessionTitle)
    /\ UNCHANGED <<input, sessionId, eventCount, historyVars>>
    /\ UNCHANGED <<graphVars, resultVars>>

\* the quick actions of the console
sendQuickMessage == sendQuickMessageOf(QuickTexts)

\* the literal of handleFetchBuildable (list the tasks that can be built)
BuildableText == <<"h", "i">>

\* the quick action that lists the buildable tasks
handleFetchBuildable == sendQuickMessageOf({BuildableText})

\* an event can be dispatched on the current EventSource while it is open
Connected == eventSourceRef # 0 /\ sources[eventSourceRef].open

\* `sources` after es.close() on the current EventSource
Closed == [sources EXCEPT ![eventSourceRef].open = FALSE]

\* appendAgentToken putting the delta in front of the buffer
appendAgentToken_Prepend(buffer, delta) == delta \o buffer

\* streamBufferRef.current += delta
appendAgentToken(buffer, delta) == buffer \o delta

\* the 'token' listener, for an event whose delta is among `deltas`
tokenOf(deltas) ==
  \E delta \in deltas :
    /\ Connected
    /\ eventCount < MaxEvents
    /\ eventCount' = eventCount + 1
    /\ received' = Append(received, delta)
    /\ streamBufferRef' = appendAgentToken(streamBufferRef, delta)
    /\ streamBuffer' = streamBufferRef'
    /\ chatOp' = ChatOp("token", TRUE)
    /\ UNCHANGED <<messages, input, isStreaming, streamTraces, streamTracesRef,
                   sessionId, eventSourceRef, sources, historyVars, storage>>
    /\ UNCHANGED <<graphVars, resultVars>>

\* the 'token' listener
token == tokenOf(Deltas)

\* the 'token' listener, for the first token of an answer "Hello"
tokenHel == tokenOf({<<"H", "e", "l">>})

\* appendTrace skipping a trace that the list already holds
appendTrace_Dedup(traces, item) ==
  IF item \in Range(traces) THEN traces ELSE Append(traces, item)

\* streamTracesRef.current = [...streamTracesRef.current, trace]
appendTrace(traces, item) == Append(traces, item)

\* the 'trace' listener
trace ==
  \E payload \in TracePayloads :
    /\ Connected
    /\ eventCount < MaxEvents
    /\ eventCount' = eventCount + 1
    /\ streamTracesRef' = IF Falsy(payload.step) THEN streamTracesRef
                          ELSE appendTrace(streamTracesRef, payload)
    /\ streamTraces' = IF Falsy(payload.step) THEN streamTraces ELSE streamTracesRef'
    /\ chatOp' = EventOp("trace", payload)
    /\ UNCHANGED <<messages, input, isStreaming, streamBuffer, streamBufferRef,
                   sessionId, eventSourceRef, sources, received, historyVars, storage>>
    /\ UNCHANGED <<graphVars, resultVars>>

\* the 'meta' listener without the test of payload.label
meta_IgnoresLabel ==
  \E payload \in MetaPayloads :
    /\ Connected
    /\ eventCount < MaxEvents
    /\ eventCount' = eventCount + 1
    /\ sessionId' = IF ~Falsy(payload.value) THEN payload.value ELSE sessionId
    /\ chatOp' = EventOp("meta", payload)
    /\ UNCHANGED <<messages, input, isStreaming, streamBuffer, streamTraces,
                   streamBufferRef, streamTracesRef, eventSourceRef, sources, received,
                   historyVars>>
    /\ Persist
    /\ UNCHANGED <<graphVars, resultVars>>

\* the 'meta' listener
meta ==
  \E payload \in MetaPayloads :
    /\ Connected
    /\ eventCount < MaxEvents
    /\ eventCount' = eventCount + 1
    /\ sessionId' = IF payload.label = "session_id" /\ ~Falsy(payload.value)
                      THEN payload.value ELSE sessionId
    /\ chatOp' = EventOp("meta", payload)
    /\ UNCHANGED <<messages, input, isStreaming, streamBuffer, streamTraces,
                   streamBufferRef, streamTracesRef, eventSourceRef, sources, received,
                   historyVars>>
    /\ Persist
    /\ UNCHANGED <<graphVars, resultVars>>

\* finalizeAgentMessage always taking the traces accumulated during the turn
FinalMessage_IgnoresTraces(citations, traces) ==
  ChatMessage("agent",
              IF streamBufferRef = <<>> THEN EmptyResponseText ELSE streamBufferRef,
              citations,
              streamTracesRef)

\* finalizeAgentMessage appending its message under the user role
FinalMessage_AsUser(citations, traces) ==
  ChatMessage("user",
              IF streamBufferRef = <<>> THEN EmptyResponseText ELSE streamBufferRef,
              citations,
              IF traces # Undefined /\ Len(traces[1]) > 0
                THEN traces[1] ELSE streamTracesRef)

\* the message appended by finalizeAgentMessage(citations, traces)
FinalMessage(citations, traces) ==
  ChatMessage("agent",
              IF streamBufferRef = <<>> THEN EmptyResponseText ELSE streamBufferRef,
              citations,
              IF traces # Undefined /\ Len(traces[1]) > 0
                THEN traces[1] ELSE streamTracesRef)

\* finalizeAgentMessage without setIsStreaming(false)
FinalizeReset_StaysStreaming ==
  /\ streamBufferRef' = <<>>
  /\ streamTracesRef' = <<>>
  /\ streamBuffer' = <<>>
  /\ streamTraces' = <<>>
  /\ isStreaming' = isStreaming

\* finalizeAgentMessage: everything but the setMessages call
FinalizeReset ==
  /\ streamBufferRef' = <<>>
  /\ streamTracesRef' = <<>>
  /\ streamBuffer' = <<>>
  /\ streamTraces' = <<>>
  /\ isStreaming' = FALSE

\* the 'done' listener, for an event whose payload is among `payloads`
doneOf(payloads) ==
  \E payload \in payloads :
    /\ Connected
    /\ messages' = Append(messages, FinalMessage(payload.citations, payload.trace))
    /\ FinalizeReset
    /\ sources' = Closed
    /\ eventSourceRef' = 0
    /\ chatOp' = EventOp("done", payload)
    /\ UNCHANGED <<input, sessionId, received, eventCount, historyVars>>
    /\ Persist
    /\ UNCHANGED <<graphVars, resultVars>>

\* the 'done' listener
done == doneOf(DonePayloads)

\* the 'done' listener, for an event without citations and trace
donePlain == doneOf({[citations |-> Undefined, trace |-> Undefined]})

\* the second setMessages of es.onerror, applied to the transcript prevMessages
ReplaceEmptyResponse(prevMessages) ==
  IF prevMessages = <<>>
    THEN <<[role |-> "agent", text |-> ConnectionFailedText,
            citations |-> Undefined, traces |-> Undefined]>>
  ELSE LET last == prevMessages[Len(prevMessages)] IN
       IF last.role = "agent" /\ last.text = EmptyResponseText
         THEN [prevMessages EXCEPT ![Len(prevMessages)].text = ConnectionFailedText]
         ELSE prevMessages

\* es.onerror
onerror ==
  /\ Connected
  /\ sources' = Closed
  /\ eventSourceRef' = 0
  /\ messages' = ReplaceEmptyResponse(
       Append(messages,
              FinalMessage(Undefined, Some(Append(streamTracesRef, ErrorTrace)))))
  /\ FinalizeReset
  /\ chatOp' = ChatOp("onerror", TRUE)
  /\ UNCHANGED <<input, sessionId, received, eventCount, historyVars>>
  /\ Persist
  /\ UNCHANGED <<graphVars, resultVars>>

(***************************************************************************)
(* Chat session engine: stop, reset and the history panel                  *)
(***************************************************************************)
\* the connection and the StreamState, as one value
StreamState ==
  [eventSourceRef |-> eventSourceRef, sources |-> sources,
   streamBufferRef |-> streamBufferRef, streamTracesRef |-> streamTracesRef,
   streamBuffer |-> streamBuffer, streamTraces |-> streamTraces,
   isStreaming |-> isStreaming]

\* stopStream leaving the text buffer as it is
stopStream_KeepsBuffer(st) ==
  [eventSourceRef |-> 0,
   sources |-> IF st.eventSourceRef = 0 THEN st.sources
               ELSE [st.sources EXCEPT ![st.eventSourceRef].open = FALSE],
   streamBufferRef |-> st.streamBufferRef, streamTracesRef |-> <<>>,
   streamBuffer |-> st.streamBuffer, streamTraces |-> <<>>,
   isStreaming |-> FALSE]

\* stopStream forgetting eventSourceRef.current.close()
stopStream_NoClose(st) ==
  [eventSourceRef |-> 0,
   sources |-> st.sources,
   streamBufferRef |-> <<>>, streamTracesRef |-> <<>>,
   streamBuffer |-> <<>>, streamTraces |-> <<>>,
   isStreaming |-> FALSE]

\* stopStream leaving the connection open and current
stopStream_KeepsConnection(st) ==
  [eventSourceRef |-> st.eventSourceRef,
   sources |-> st.sources,
   streamBufferRef |-> <<>>, streamTracesRef |-> <<>>,
   streamBuffer |-> <<>>, streamTraces |-> <<>>,
   isStreaming |-> FALSE]

\* stopStream without setStreamTraces([])
stopStream_KeepsRenderedTraces(st) ==
  [eventSourceRef |-> 0,
   sources |-> IF st.eventSourceRef = 0 THEN st.sources
               ELSE [st.sources EXCEPT ![st.eventSourceRef].open = FALSE],
   streamBufferRef |-> <<>>, streamTracesRef |-> <<>>,
   streamBuffer |-> <<>>, streamTraces |-> st.streamTraces,
   isStreaming |-> FALSE]

\* stopStream, applied to the connection and StreamState st
stopStream(st) ==
  [eventSourceRef |-> 0,
   sources |-> IF st.eventSourceRef = 0 THEN st.sources
               ELSE [st.sources EXCEPT ![st.eventSourceRef].open = FALSE],
   streamBufferRef |-> <<>>, streamTracesRef |-> <<>>,
   streamBuffer |-> <<>>, streamTraces |-> <<>>,
   isStreaming |-> FALSE]

\* the connection and the StreamState become st
SetStreamState(st) ==
  /\ eventSourceRef' = st.eventSourceRef
  /\ sources' = st.sources
  /\ streamBufferRef' = st.streamBufferRef
  /\ streamTracesRef' = st.streamTracesRef
  /\ streamBuffer' = st.streamBuffer
  /\ streamTraces' = st.streamTraces
  /\ isStreaming' = st.isStreaming

AgentSession(sid, title) == [session_id |-> sid, title |-> title]

\* the sessions the server knows; the second one has no title
S1 == AgentSession("s1", "T1")

S2 == AgentSession("s2", "")

\* the bodies of GET /api/agent/sessions
ListResponses == {<<S1, S2>>}

AgentMessage(role, content, tool_name, tool_trace) ==
  [role |-> role, content |-> content, tool_name |-> tool_name, tool_trace |-> tool_trace]

\* json.messages of GET /api/agent/sessions/{id}: content and
\* tool_payload.trace are optional; a step of Null is a step that is no string
HistoryMessages(sid) ==
  IF sid = "s1"
    THEN <<AgentMessage("user", Some(<<" ", "h", "i", " ">>), Null, Undefined),
           AgentMessage("system", Some(<<"x">>), Null, Undefined),
           AgentMessage("assistant", Undefined, "agent_trace",
                        Some(<<[step |-> "plan", stage |-> "tool", level |-> "info"],
                               [step |-> Null, stage |-> "tool", level |-> "info"]>>))>>
    ELSE <<AgentMessage("assistant", Some(<<"o", "k">>), "search",
                        Some(<<[step |-> "plan", stage |-> "tool", level |-> "info"]>>))>>

\* the session with id sid among the sessions of the server
SessionOf(sid) == IF sid = "s1" THEN S1 ELSE S2

\* the body of GET /api/agent/sessions/{id}
SessionDetail(sid) == [session |-> SessionOf(sid), messages |-> HistoryMessages(sid)]

\* the ways a DELETE request fails: fetch rejects (no response), or the
\* response is not ok, with a body that has a detail or has none
DeleteFailures ==
  {[response |-> FALSE, detail |-> Null],
   [response |-> TRUE, detail |-> Null],
   [response |-> TRUE, detail |-> "session is locked"]}

\* error.message of the TypeError of a fetch that rejects
NetworkErrorText == "Failed to fetch"

\* the literal of deleteHistorySession (deletion failed)
DeleteFailedText == "delete failed"

\* the message of deleteHistorySession that never reads payload.detail
DeleteErrorMessage_IgnoresDetail(failure) ==
  IF ~failure.response THEN NetworkErrorText ELSE DeleteFailedText

\* error.message in the catch of deleteHistorySession
DeleteErrorMessage(failure) ==
  IF ~failure.response THEN NetworkErrorText
  ELSE IF Falsy(failure.detail) THEN DeleteFailedText ELSE failure.detail

\* the literal of deleteHistorySession (a conversation is in progress)
StreamingDeleteError == "cannot delete while streaming"

\* the callback of items.forEach in mapHistoryMessages: what it pushes
mapHistoryMessage(item) ==
  LET role == IF item.role = "assistant" THEN "agent"
              ELSE IF item.role = "user" THEN "user" ELSE Null
      text == Trim(IF item.content = Undefined THEN <<>> ELSE item.content[1])
      traces == IF role = "agent" /\ item.tool_name = "agent_trace"
                   /\ item.tool_trace # Undefined
                  THEN Some(SelectSeq(item.tool_trace[1], LAMBDA t : t.step # Null))
                  ELSE Undefined
  IN IF role = Null THEN <<>>
     ELSE <<ChatMessage(role, IF text = <<>> THEN EmptyResponseText ELSE text,
                        Undefined, traces)>>

\* mapHistoryMessages putting each message in front of the earlier ones
RECURSIVE mapHistoryMessages_Reversed(_)
mapHistoryMessages_Reversed(items) ==
  IF items = <<>> THEN <<>>
  ELSE mapHistoryMessages_Reversed(Tail(items)) \o mapHistoryMessage(Head(items))

RECURSIVE mapHistoryMessages(_)
mapHistoryMessages(items) ==
  IF items = <<>> THEN <<>>
  ELSE mapHistoryMessage(Head(items)) \o mapHistoryMessages(Tail(items))

\* a fetch call of the history panel: deleteHistorySession reads sessionId
\* after the await from the render in which it was invoked (`active`);
\* `turn` is the EventSource that was current when loadHistorySession was
\* invoked
Request(kind, sid) ==
  [n |-> requestCount + 1, kind |-> kind, id |-> sid,
   active |-> IF kind = "delete" THEN sessionId ELSE Null,
   turn |-> IF kind = "load" THEN eventSourceRef ELSE 0]

\* the fetch call Request(kind, sid) is made, as one of at most `limit` calls
SendWithin(kind, sid, limit) ==
  /\ requestCount < limit
  /\ requests' = requests \cup {Request(kind, sid)}
  /\ requestCount' = requestCount + 1

\* the fetch call Request(kind, sid) is made
Send(kind, sid) == SendWithin(kind, sid, MaxRequests)

HistoryOp(name, sid, accepted) == [op |-> name, accepted |-> accepted, id |-> sid]

\* loadHistorySession has adopted the body json that answers the request r;
\* `accepted` tells that its stopStream found a connection to close
LoadOp(r, json) ==
  [op |-> "loadHistorySessionOk", accepted |-> eventSourceRef # 0, id |-> r.id,
   n |-> r.n, json |-> json]

\* the frame of the handlers of the history panel that leave the chat alone
ChatUntouched ==
  UNCHANGED <<messages, input, isStreaming, streamBuffer, streamTraces, streamBufferRef,
              streamTracesRef, sessionId, eventSourceRef, sources, received, eventCount,
              activeSessionTitle, storage>>

\* fetchSessions up to its await
FetchSessionsStart ==
  /\ Send("list", Null)
  /\ historyLoading' = TRUE
  /\ historyError' = ""
  /\ UNCHANGED <<sessions, historyDetailLoadingId, historyDeletingId>>
  /\ ChatUntouched
  /\ UNCHANGED <<graphVars, resultVars>>

\* the history button of the chat header
openHistory ==
  /\ ~historyOpen
  /\ historyOpen' = TRUE
  /\ FetchSessionsStart
  /\ chatOp' = HistoryOp("openHistory", Null, TRUE)

\* the refresh button of the history panel
fetchSessions ==
  /\ historyOpen
  /\ ~historyLoading
  /\ FetchSessionsStart
  /\ chatOp' = HistoryOp("fetchSessions", Null, TRUE)
  /\ UNCHANGED historyOpen

\* fetchSessions after its await: the request succeeded
fetchSessionsOk ==
  \E r \in requests, list \in ListResponses :
    /\ r.kind = "list"
    /\ requests' = requests \ {r}
    /\ sessions' = list
    /\ historyLoading' = FALSE
    /\ chatOp' = HistoryOp("fetchSessionsOk", Null, TRUE)
    /\ UNCHANGED <<historyOpen, historyError, historyDetailLoadingId, historyDeletingId>>
    /\ ChatUntouched
    /\ UNCHANGED requestCount
    /\ UNCHANGED <<graphVars, resultVars>>

\* the catch branch of fetchSessions calling stopStream as well
fetchSessionsFail_StopsStream ==
  \E r \in requests :
    /\ r.kind = "list"
    /\ requests' = requests \ {r}
    /\ historyError' = "request failed: 500"
    /\ sessions' = <<>>
    /\ historyLoading' = FALSE
    /\ SetStreamState(stopStream(StreamState))
    /\ chatOp' = HistoryOp("fetchSessionsFail", Null, TRUE)
    /\ UNCHANGED <<historyOpen, historyDetailLoadingId, historyDeletingId>>
    /\ UNCHANGED <<messages, input, sessionId, received, eventCount, activeSessionTitle,
                   storage>>
    /\ UNCHANGED requestCount
    /\ UNCHANGED <<graphVars, resultVars>>

\* fetchSessions after its await: the request failed
fetchSessionsFail ==
  \E r \in requests :
    /\ r.kind = "list"
    /\ requests' = requests \ {r}
    /\ historyError' = "request failed: 500"
    /\ sessions' = <<>>
    /\ historyLoading' = FALSE
    /\ chatOp' = HistoryOp("fetchSessionsFail", Null, TRUE)
    /\ UNCHANGED <<historyOpen, historyDetailLoadingId, historyDeletingId>>
    /\ ChatUntouched
    /\ UNCHANGED requestCount
    /\ UNCHANGED <<graphVars, resultVars>>

\* the close button of the history panel
closeHistory ==
  /\ historyOpen
  /\ historyOpen' = FALSE
  /\ historyError' = ""
  /\ chatOp' = HistoryOp("closeHistory", Null, TRUE)
  /\ UNCHANGED <<sessions, historyLoading, historyDetailLoadingId, historyDeletingId,
                 requests>>
  /\ ChatUntouched
  /\ UNCHANGED requestCount
  /\ UNCHANGED <<graphVars, resultVars>>

\* resetChat without setSessionId(null)
resetChat_KeepsSessionId ==
  /\ historyOpen
  /\ SetStreamState(stopStream(StreamState))
  /\ messages' = <<>>
  /\ sessionId' = sessionId
  /\ activeSessionTitle' = Null
  /\ historyOpen' = FALSE
  /\ historyError' = ""
  /\ Persist
  /\ chatOp' = HistoryOp("resetChat", Null, eventSourceRef # 0)
  /\ UNCHANGED <<input, received, eventCount, sessions, historyLoading,
                 historyDetailLoadingId, historyDeletingId, requests>>
  /\ UNCHANGED requestCount
  /\ UNCHANGED <<graphVars, resultVars>>

\* the new-conversation button of the history panel; removeItem is followed
\* by the effect that stores the emptied state
resetChat ==
  /\ historyOpen
  /\ SetStreamState(stopStream(StreamState))
  /\ messages' = <<>>
  /\ sessionId' = Null
  /\ activeSessionTitle' = Null
  /\ historyOpen' = FALSE
  /\ historyError' = ""
  /\ Persist
  /\ chatOp' = HistoryOp("resetChat", Null, eventSourceRef # 0)
  /\ UNCHANGED <<input, received, eventCount, sessions, historyLoading,
                 historyDetailLoadingId, historyDeletingId, requests>>
  /\ UNCHANGED requestCount
  /\ UNCHANGED <<graphVars, resultVars>>

\* the two buttons of a row are disabled while the row is loading or deleting
RowEnabled(session) ==
  /\ historyDetailLoadingId # session.session_id
  /\ historyDeletingId # session.session_id

\* a click on a row of the history panel: loadHistorySession up to its await
loadHistorySession ==
  \E i \in 1..Len(sessions) :
    LET session == sessions[i] IN
    /\ historyOpen
    /\ RowEnabled(session)
    /\ Send("load", session.session_id)
    /\ historyDetailLoadingId' = session.session_id
    /\ historyError' = ""
    /\ chatOp' = HistoryOp("loadHistorySession", session.session_id, TRUE)
    /\ UNCHANGED <<historyOpen, sessions, historyLoading, historyDeletingId>>
    /\ ChatUntouched
    /\ UNCHANGED <<graphVars, resultVars>>

\* loadHistorySession after its await: the request succeeded with a body
\* among bodies[id]
loadHistorySessionOkWith(bodies) ==
  \E r \in {q \in requests : q.kind = "load"} : \E json \in bodies[r.id] :
    /\ r.kind = "load"
    /\ requests' = requests \ {r}
    /\ SetStreamState(stopStream(StreamState))
    /\ messages' = mapHistoryMessages(json.messages)
    /\ sessionId' = json.session.session_id
    /\ activeSessionTitle' = IF Falsy(json.session.title) THEN Null ELSE json.session.title
    /\ historyOpen' = FALSE
    /\ historyDetailLoadingId' = Null
    /\ Persist
    /\ chatOp' = LoadOp(r, json)
    /\ UNCHANGED <<input, received, eventCount, sessions, historyLoading, historyError,
                   historyDeletingId>>
    /\ UNCHANGED requestCount
    /\ UNCHANGED <<graphVars, resultVars>>

\* loadHistorySession after its await: the request succeeded
loadHistorySessionOk ==
  loadHistorySessionOkWith([sid \in {S1.session_id, S2.session_id} |-> {SessionDetail(sid)}])

\* the messages a body of GET /api/agent/sessions/{id} is made of: roles the
\* console shows and roles it does not
HistoryItems ==
  {AgentMessage("user", Some(<<" ", "h", "i", " ">>), Null, Undefined),
   AgentMessage("assistant", Undefined, "agent_trace",
                Some(<<[step |-> "plan", stage |-> "tool", level |-> "info"]>>)),
   AgentMessage("system", Some(<<"x">>), Null, Undefined),
   AgentMessage("agent", Some(<<"o", "k">>), Null, Undefined)}

\* the sequences over S of length at most n
SeqsUpTo(S, n) == UNION {[1..k -> S] : k \in 0..n}

\* any body of GET /api/agent/sessions/{id} with at most MaxHistory messages
AnySessionDetail ==
  [sid \in {S1.session_id, S2.session_id} |->
     {[session |-> SessionOf(sid), messages |-> items] :
        items \in SeqsUpTo(HistoryItems, MaxHistory)}]

\* loadHistorySession after its await: the request succeeded with any body
loadHistorySessionOkAny == loadHistorySessionOkWith(AnySessionDetail)

\* the messages of the errors a failing load is caught with: the one thrown
\* at `!res.ok`, and the one fetch() rejects with
LoadErrors == {"request failed: 500", NetworkErrorText}

\* the catch branch of loadHistorySession calling stopStream as well
loadHistorySessionFail_StopsStream ==
  \E r \in requests, msg \in LoadErrors :
    /\ r.kind = "load"
    /\ requests' = requests \ {r}
    /\ historyError' = msg
    /\ historyDetailLoadingId' = Null
    /\ SetStreamState(stopStream(StreamState))
    /\ chatOp' = HistoryOp("loadHistorySessionFail", r.id, TRUE)
    /\ UNCHANGED <<historyOpen, sessions, historyLoading, historyDeletingId>>
    /\ UNCHANGED <<messages, input, sessionId, received, eventCount, activeSessionTitle,
                   storage>>
    /\ UNCHANGED requestCount
    /\ UNCHANGED <<graphVars, resultVars>>

\* loadHistorySession after its await: the request failed
loadHistorySessionFail ==
  \E r \in requests, msg \in LoadErrors :
    /\ r.kind = "load"
    /\ requests' = requests \ {r}
    /\ historyError' = msg
    /\ historyDetailLoadingId' = Null
    /\ chatOp' = HistoryOp("loadHistorySessionFail", r.id, TRUE)
    /\ UNCHANGED <<historyOpen, sessions, historyLoading, historyDeletingId>>
    /\ ChatUntouched
    /\ UNCHANGED requestCount
    /\ UNCHANGED <<graphVars, resultVars>>

\* deleteHistorySession without the test of isStreaming
DeleteRejected_IgnoresStreaming(session) == FALSE

\* deleteHistorySession returns at `if (isStreaming)`
DeleteRejected(session) == isStreaming

\* the delete button of a row: deleteHistorySession up to its await;
\* `confirmed` is the answer to window.confirm, `limit` bounds the fetch calls
deleteHistorySessionWithin(limit) ==
  \E i \in 1..Len(sessions), confirmed \in BOOLEAN :
    LET session == sessions[i]
        sent == ~Falsy(session.session_id) /\ ~DeleteRejected(session) /\ confirmed IN
    /\ historyOpen
    /\ RowEnabled(session)
    /\ sent => requestCount < limit
    /\ IF Falsy(session.session_id)
         THEN UNCHANGED <<historyError, historyDeletingId, requests, requestCount>>
         ELSE IF DeleteRejected(session)
           THEN /\ historyError' = StreamingDeleteError
                /\ UNCHANGED <<historyDeletingId, requests, requestCount>>
           ELSE IF ~confirmed
             THEN UNCHANGED <<historyError, historyDeletingId, requests, requestCount>>
             ELSE /\ historyDeletingId' = session.session_id
                  /\ historyError' = ""
                  /\ SendWithin("delete", session.session_id, limit)
    /\ chatOp' = HistoryOp("deleteHistorySession", session.session_id, sent)
    /\ UNCHANGED <<historyOpen, sessions, historyLoading, historyDetailLoadingId>>
    /\ ChatUntouched
    /\ UNCHANGED <<graphVars, resultVars>>

\* the delete button of a row
deleteHistorySession == deleteHistorySessionWithin(MaxRequests)

\* the delete button of a row, in a behaviour of deletions
deleteHistorySessionAgain == deleteHistorySessionWithin(MaxDeleteRequests)

\* the sessions left by prev.filter((item) => item.session_id !== sid)
WithoutSession(list, sid) == SelectSeq(list, LAMBDA item : item.session_id # sid)

\* deleteHistorySession after its await: the request succeeded
deleteHistorySessionOk ==
  \E r \in requests :
    /\ r.kind = "delete"
    /\ requests' = requests \ {r}
    /\ sessions' = WithoutSession(sessions, r.id)
    /\ IF r.active = r.id
         THEN /\ sessionId' = Null
              /\ activeSessionTitle' = Null
              /\ messages' = <<>>
              /\ Persist
         ELSE UNCHANGED <<sessionId, activeSessionTitle, messages, storage>>
    /\ historyDeletingId' = Null
    /\ chatOp' = HistoryOp("deleteHistorySessionOk", r.id, TRUE)
    /\ UNCHANGED <<input, isStreaming, streamBuffer, streamTraces, streamBufferRef,
                   streamTracesRef, eventSourceRef, sources, received, eventCount,
                   historyOpen, historyLoading, historyError, historyDetailLoadingId>>
    /\ UNCHANGED requestCount
    /\ UNCHANGED <<graphVars, resultVars>>

\* deleteHistorySession after its await: the request failed
deleteHistorySessionFail ==
  \E r \in requests, failure \in DeleteFailures :
    /\ r.kind = "delete"
    /\ requests' = requests \ {r}
    /\ historyError' = DeleteErrorMessage(failure)
    /\ historyDeletingId' = Null
    /\ chatOp' = [op |-> "deleteHistorySessionFail", accepted |-> TRUE, id |-> r.id,
                  failure |-> failure]
    /\ UNCHANGED <<historyOpen, sessions, historyLoading, historyDetailLoadingId>>
    /\ ChatUntouched
    /\ UNCHANGED requestCount
    /\ UNCHANGED <<graphVars, resultVars>>

(***************************************************************************)
(* Chat session engine: payloads and bodies of an unexpected shape         *)
(***************************************************************************)
\* event.data of a stream event that is no payload of the declared type: a
\* text that is no JSON, the JSON null, an object without any property
MalformedData == {"not json", "null", "{}"}

\* JSON.parse(event.data) throws, or the read of a property of null throws;
\* the listeners have no try
Throws(data) == data \in {"not json", "null"}

\* String(undefined), what `+=` appends for a payload without delta
UndefinedText == <<"u", "n", "d", "e", "f", "i", "n", "e", "d">>

\* a listener or handler that was given data of an unexpected shape;
\* `uncaught` tells that an exception left it
FaultOp(name, data, uncaught) ==
  [op |-> name, accepted |-> FALSE, data |-> data, uncaught |-> uncaught]

\* the 'token' listener, for an event whose data is malformed
tokenMalformed ==
  \E data \in MalformedData :
    /\ Connected
    /\ eventCount < MaxEvents
    /\ eventCount' = eventCount + 1
    /\ streamBufferRef' = IF Throws(data) THEN streamBufferRef
                          ELSE appendAgentToken(streamBufferRef, UndefinedText)
    /\ streamBuffer' = IF Throws(data) THEN streamBuffer ELSE streamBufferRef'
    /\ chatOp' = FaultOp("tokenMalformed", data, Throws(data))
    /\ UNCHANGED <<messages, input, isStreaming, streamTraces, streamTracesRef,
                   sessionId, eventSourceRef, sources, received, historyVars, storage>>
    /\ UNCHANGED <<graphVars, resultVars>>

\* the 'done' listener, for an event whose data is malformed: it throws
\* before finalizeAgentMessage and es.close()
doneMalformed ==
  \E data \in {d \in MalformedData : Throws(d)} :
    /\ Connected
    /\ eventCount < MaxEvents
    /\ eventCount' = eventCount + 1
    /\ chatOp' = FaultOp("doneMalformed", data, TRUE)
    /\ UNCHANGED <<messages, input, isStreaming, streamBuffer, streamTraces,
                   streamBufferRef, streamTracesRef, sessionId, eventSourceRef, sources,
                   received, historyVars, storage>>
    /\ UNCHANGED <<graphVars, resultVars>>

\* bodies of GET /api/agent/sessions/{id} of an unexpected shape: one without
\* `session`, one whose `messages` is no array
MalformedDetails == {"no session", "messages no array"}

\* error.message of the TypeError caught by loadHistorySession
TypeErrorText == "TypeError"

\* loadHistorySession after its await: the request succeeded with a body of
\* an unexpected shape; stopStream has run when mapHistoryMessages throws,
\* and setMessages as well when json.session.session_id throws
loadHistorySessionOkMalformed ==
  \E r \in {q \in requests : q.kind = "load"}, body \in MalformedDetails :
    /\ requests' = requests \ {r}
    /\ SetStreamState(stopStream(StreamState))
    /\ messages' = IF body = "no session" THEN mapHistoryMessages(HistoryMessages(r.id))
                   ELSE messages
    /\ UNCHANGED <<sessionId, activeSessionTitle, historyOpen>>
    /\ historyError' = TypeErrorText
    /\ historyDetailLoadingId' = Null
    /\ Persist
    /\ chatOp' = FaultOp("loadHistorySessionOkMalformed", body, FALSE)
    /\ UNCHANGED <<input, received, eventCount, sessions, historyLoading, historyDeletingId>>
    /\ UNCHANGED requestCount
    /\ UNCHANGED <<graphVars, resultVars>>

(***************************************************************************)
(* Chat session engine: reload of the page                                 *)
(***************************************************************************)
\* the page is reloaded: the cleanup of the unmount closes the connection, the
\* pending requests are abandoned and the console is mounted on the item that
\* the tab has stored
reload ==
  /\ messages' = StartUp(storage).state.messages
  /\ sessionId' = StartUp(storage).state.sessionId
  /\ activeSessionTitle' = StartUp(storage).state.activeSessionTitle
  /\ storage' = StartUp(storage).storage
  /\ input' = <<>>
  /\ isStreaming' = FALSE
  /\ streamBuffer' = <<>>
  /\ streamTraces' = <<>>
  /\ streamBufferRef' = <<>>
  /\ streamTracesRef' = <<>>
  /\ sources' = CloseCurrent
  /\ eventSourceRef' = 0
  /\ received' = <<>>
  /\ historyOpen' = FALSE
  /\ sessions' = <<>>
  /\ historyLoading' = FALSE
  /\ historyError' = ""
  /\ historyDetailLoadingId' = Null
  /\ historyDeletingId' = Null
  /\ requests' = {}
  /\ chatOp' = MountOp(storage)
  /\ UNCHANGED <<eventCount, requestCount>>
  /\ UNCHANGED <<graphVars, resultVars>>

\* the items a tab may hold when the console is opened: nothing, a text that
\* is no JSON, snapshots the console has written, and snapshots with a field
\* or an entry of a wrong type
StoredItems ==
  {NoItem,
   Unparseable,
   Snapshot(<<ChatMessage("user", <<"h", "i">>, Undefined, Undefined),
              ChatMessage("agent", <<"H", "e", "l">>, Undefined, <<>>)>>, "s1", "T1"),
   Snapshot(<<>>, "s2", Null),
   Snapshot(NotAnArray, "s1", Null),
   Snapshot(<<ChatMessage("user", <<"h", "i">>, Undefined, Undefined),
              ChatMessage("system", <<"x">>, Undefined, Undefined),
              ChatMessage("agent", NumberText, Undefined, Undefined),
              NullEntry>>, NumberId, "T1")}

(***************************************************************************)
(* Specifications                                                          *)
(***************************************************************************)
\* ---------------------------------------------------------------------
\* The result list (ResultListClient): the page and the page size it reads
\* from the query of its URL
\* ---------------------------------------------------------------------

\* searchParams.get(name): null when the query has no such parameter
NoParam == [present |-> FALSE, text |-> <<>>]

Param(text) == [present |-> TRUE, text |-> text]

Digits == <<"0", "1", "2", "3", "4", "5", "6", "7", "8", "9">>

\* the value of a sequence of decimal digits
RECURSIVE DecimalValue(_)
DecimalValue(digits) ==
  IF digits = <<>> THEN 0
  ELSE DecimalValue(SubSeq(digits, 1, Len(digits) - 1)) * 10
         + (CHOOSE d \in 0..9 : Digits[d + 1] = digits[Len(digits)])

\* a Number: NaN, an infinity, or the finite (neg ? -1 : 1) * (int + fraction),
\* where frac tells that the fraction is not zero
NaN == [nan |-> TRUE, inf |-> FALSE, neg |-> FALSE, int |-> 0, frac |-> FALSE]

Infinite(neg) == [nan |-> FALSE, inf |-> TRUE, neg |-> neg, int |-> 0, frac |-> FALSE]

Finite(neg, int, frac) == [nan |-> FALSE, inf |-> FALSE, neg |-> neg, int |-> int, frac |-> frac]

InfinityText == <<"I", "n", "f", "i", "n", "i", "t", "y">>

\* digits with at most one point and at least one digit: the decimal
\* literals without exponent
IsDecimalLiteral(body) ==
  /\ \A i \in 1..Len(body) : body[i] = "." \/ \E d \in 1..10 : Digits[d] = body[i]
  /\ Cardinality({i \in 1..Len(body) : body[i] = "."}) <= 1
  /\ \E i \in 1..Len(body) : body[i] # "."

DecimalLiteralValue(neg, body) ==
  LET points == {i \in 1..Len(body) : body[i] = "."}
      k == IF points = {} THEN Len(body) + 1 ELSE CHOOSE i \in points : TRUE
  IN Finite(neg, DecimalValue(SubSeq(body, 1, k - 1)),
            \E i \in (k + 1)..Len(body) : body[i] # "0")

\* Number(text) for a string: white space is trimmed, the empty string is 0,
\* a signed Infinity or decimal literal is its value, anything else is NaN
\* (literals with an exponent or a 0x, 0o, 0b prefix are not among QueryTexts)
TrimmedToNumber(t) ==
  LET signed == t[1] \in {"+", "-"}
      neg == t[1] = "-"
  IN IF t = <<>> THEN Finite(FALSE, 0, FALSE)
     ELSE CHOOSE n \in {IF body = InfinityText THEN Infinite(neg)
                        ELSE IF IsDecimalLiteral(body) THEN DecimalLiteralValue(neg, body)
                        ELSE NaN : body \in {IF signed THEN Tail(t) ELSE t}} : TRUE

StringToNumber(text) == CHOOSE n \in {TrimmedToNumber(t) : t \in {Trim(text)}} : TRUE

\* Number(value) for a string or null: Number(null) is 0
Number(value) == IF value.present THEN StringToNumber(value.text) ELSE Finite(FALSE, 0, FALSE)

IsFinite(parsed) == ~parsed.nan /\ ~parsed.inf

\* Math.floor of a finite Number
Floor(parsed) ==
  IF ~parsed.neg THEN parsed.int
  ELSE IF parsed.frac THEN 0 - parsed.int - 1 ELSE 0 - parsed.int

MathMin(a, b) == IF a <= b THEN a ELSE b

MathMax(a, b) == IF a >= b THEN a ELSE b

\* the result of clampInt once `parsed` is known
ClampParsed(parsed, fallback, min, max) ==
  IF ~IsFinite(parsed) THEN fallback
  ELSE MathMin(max, MathMax(min, Floor(parsed)))

\* const parsed = Number(value), evaluated once, then the two returns
clampInt(value, fallback, min, max) ==
  CHOOSE result \in {ClampParsed(parsed, fallback, min, max) : parsed \in {Number(value)}} : TRUE

\* useMemo(() => clampInt(searchParams.get('page'), 1, 1, 10_000))
page == clampInt(searchParams.page, 1, 1, 10000)

\* useMemo(() => clampInt(searchParams.get('page_size'), 10, 1, 100))
pageSize == clampInt(searchParams.page_size, 10, 1, 100)

\* `${n}` for an integer n >= 0
RECURSIVE NumberToString(_)
NumberToString(n) ==
  IF n < 10 THEN <<Digits[n + 1]>>
  ELSE Append(NumberToString(n \div 10), Digits[(n % 10) + 1])

\* the query of /result without parameters
NoQuery == [page |-> NoParam, page_size |-> NoParam]

\* the texts a parameter of the query is given
QueryTexts ==
  {<<>>, <<" ">>, <<"0">>, <<"5">>, <<" ", "7">>, <<"2", ".", "7">>, <<"-", "3">>,
   <<"-", "0", ".", "5">>, <<"2", "5", "0">>,
   <<"p", "7">>, <<"N", "a", "N">>, InfinityText, <<"-">> \o InfinityText}

\* the queries: each parameter is absent or has one of the texts
Queries ==
  LET values == {NoParam} \cup {Param(text) : text \in QueryTexts}
  IN [page : values, page_size : values]

\* the effect on [page, pageSize]: fetchList requests
\* /api/results?page=${page}&page_size=${pageSize}
FetchListQuery == [page |-> page, page_size |-> pageSize]

\* the result list mounted on one of the queries
ResultInit(queries) ==
  /\ searchParams \in queries
  /\ listRequest = FetchListQuery

\* the page is opened on another query
OpenResultUrl ==
  \E query \in Queries :
    /\ searchParams' = query
    /\ listRequest' = FetchListQuery'
    /\ UNCHANGED <<graphVars, chatVars>>

\* the link to the previous page: buildHref(Math.max(1, page - 1))
PrevPage ==
  /\ \E nextPage \in {MathMax(1, page - 1)}, size \in {pageSize} :
       searchParams' = [page |-> Param(NumberToString(nextPage)),
                        page_size |-> Param(NumberToString(size))]
  /\ listRequest' = FetchListQuery'
  /\ UNCHANGED <<graphVars, chatVars>>

InitGraph == GraphInit(Subjects) /\ ChatInit /\ ResultInit({NoQuery})

NextGraph ==
  \/ fetchGraph
  \/ ChangeId
  \/ FetchGraphOk
  \/ FetchGraphFail
  \/ handleTypeClick
  \/ handleEntityClick
  \/ handleExpandNextLevel
  \/ cxttap
  \/ closeContextMenu

SpecGraph == InitGraph /\ [][NextGraph]_vars

InitChat == ChatInit /\ GraphInit({"7"}) /\ ResultInit({NoQuery})

NextChat ==
  \/ setInput
  \/ handleSend
  \/ sendQuickMessage
  \/ token
  \/ trace
  \/ meta
  \/ done
  \/ onerror

SpecChat == InitChat /\ [][NextChat]_vars

\* the history panel next to turns of the quick action
NextHistory ==
  \/ handleFetchBuildable
  \/ meta
  \/ donePlain
  \/ openHistory
  \/ fetchSessionsOk
  \/ closeHistory
  \/ resetChat
  \/ loadHistorySession
  \/ loadHistorySessionOk
  \/ deleteHistorySession
  \/ deleteHistorySessionOk

SpecHistory == InitChat /\ [][NextHistory]_vars

\* turns of the quick action that are stopped by the new-conversation button
NextStop ==
  \/ handleFetchBuildable
  \/ tokenHel
  \/ trace
  \/ donePlain
  \/ onerror
  \/ openHistory
  \/ fetchSessionsOk
  \/ resetChat

SpecStop == InitChat /\ [][NextStop]_vars

\* the history panel on its own, with the failures of its requests
NextPanel ==
  \/ openHistory
  \/ fetchSessions
  \/ fetchSessionsOk
  \/ fetchSessionsFail
  \/ closeHistory
  \/ resetChat
  \/ loadHistorySession
  \/ loadHistorySessionOk
  \/ loadHistorySessionFail
  \/ deleteHistorySession
  \/ deleteHistorySessionOk
  \/ deleteHistorySessionFail

SpecPanel == InitChat /\ [][NextPanel]_vars

\* the list of sessions fetched, refreshed and failing next to a turn
NextList ==
  \/ handleFetchBuildable
  \/ tokenHel
  \/ donePlain
  \/ openHistory
  \/ fetchSessions
  \/ fetchSessionsOk
  \/ fetchSessionsFail
  \/ closeHistory

SpecList == InitChat /\ [][NextList]_vars

\* deletions of the sessions of the history panel
NextDelete ==
  \/ openHistory
  \/ fetchSessionsOk
  \/ deleteHistorySessionAgain
  \/ deleteHistorySessionOk
  \/ deleteHistorySessionFail

SpecDelete == InitChat /\ [][NextDelete]_vars

\* sessions of the history loaded into the transcript, whatever they hold
NextLoad ==
  \/ openHistory
  \/ fetchSessionsOk
  \/ loadHistorySession
  \/ loadHistorySessionOkAny

SpecLoad == InitChat /\ [][NextLoad]_vars

\* turns that end by a done event, by a connection error or by a reset, over
\* a transport that delivers a done event or a connection error to every
\* connection that stays open
NextLive ==
  \/ handleFetchBuildable
  \/ tokenHel
  \/ donePlain
  \/ onerror
  \/ openHistory
  \/ resetChat

\* the transport ends every open connection
TransportEnds == donePlain \/ onerror

SpecLive == InitChat /\ [][NextLive]_vars /\ WF_vars(TransportEnds)

\* loads of a session that fail next to a turn, over a transport that
\* delivers a done event or a connection error to every open connection
NextLoadFail ==
  \/ handleFetchBuildable
  \/ tokenHel
  \/ donePlain
  \/ onerror
  \/ openHistory
  \/ fetchSessionsOk
  \/ loadHistorySession
  \/ loadHistorySessionFail

SpecLoadFail == InitChat /\ [][NextLoadFail]_vars /\ WF_vars(TransportEnds)

\* the result list opened by a link that names at most a page, then opened on
\* any query and paged backwards
InitResult ==
  ChatInit /\ GraphInit({"7"}) /\ ResultInit({q \in Queries : ~q.page_size.present})

NextResult ==
  \/ OpenResultUrl
  \/ PrevPage

SpecResult == InitResult /\ [][NextResult]_vars

\* turns and loads that are given payloads and bodies of an unexpected shape
NextFaults ==
  \/ handleFetchBuildable
  \/ tokenHel
  \/ tokenMalformed
  \/ doneMalformed
  \/ donePlain
  \/ onerror
  \/ openHistory
  \/ fetchSessionsOk
  \/ loadHistorySession
  \/ loadHistorySessionOkMalformed

SpecFaults == InitChat /\ [][NextFaults]_vars

\* the console opened on any stored item, then used and reloaded
InitStorage ==
  (\E raw \in StoredItems : Mounted(raw)) /\ GraphInit({"7"}) /\ ResultInit({NoQuery})

NextStorage ==
  \/ handleFetchBuildable
  \/ meta
  \/ donePlain
  \/ openHistory
  \/ fetchSessionsOk
  \/ loadHistorySession
  \/ loadHistorySessionOk
  \/ resetChat
  \/ reload

SpecStorage == InitStorage /\ [][NextStorage]_vars

(***************************************************************************)
(* Properties of the graph explorer                                        *)
(***************************************************************************)
\* every string that may be handed to handleExpandNextLevel as a node id;
\* Z is referenced by an edge only, Q occurs in no dataset
AllIds == {"A", "B", "C", "Z", "Q"}

\* the edges of d with nodeId as source or target
TouchingEdges(d, nodeId) == {e \in Range(d.edges) : e.source = nodeId \/ e.target = nodeId}

\* C1: after selectEntity(n) the VisibleSet is exactly n, the ids of the
\* edges of the dataset with n as source or target, and the endpoints of
\* those edges; it is a function of the dataset and n alone.
C1_SelectEntityIsOneHopReset ==
  lastOp.op = "handleEntityClick" =>
    LET touching == TouchingEdges(fullData, lastOp.arg) IN
    /\ visibleEdgeIds = {EdgeId(e) : e \in touching}
    /\ visibleNodeIds = {lastOp.arg} \cup {e.source : e \in touching}
                                      \cup {e.target : e \in touching}

\* C1 witness: an entity was selected, it has neighbours, and part of the
\* VisibleSet that was shown before the click is gone
C1_Witness ==
  /\ lastOp.op = "handleEntityClick"
  /\ visibleEdgeIds # {}
  /\ prev.nodes \ visibleNodeIds # {}
  /\ prev.edges \ visibleEdgeIds # {}

\* C2 as stated: expandNeighborhood(x) adds the id of every edge touching x
\* and both endpoints of each of those edges.
C2_ExpandAddsAllEndpoints ==
  lastOp.op = "handleExpandNextLevel" =>
    LET touching == TouchingEdges(fullData, lastOp.arg) IN
    /\ visibleEdgeIds = prev.edges \cup {EdgeId(e) : e \in touching}
    /\ visibleNodeIds = prev.nodes \cup {e.source : e \in touching}
                                    \cup {e.target : e \in touching}

\* the positions of the edges touching nodeId whose id was not visible and
\* is not carried by an earlier edge touching nodeId
NewlyShown(d, vis, nodeId) ==
  {i \in 1..Len(d.edges) :
     /\ Touches(d.edges[i], nodeId)
     /\ EdgeId(d.edges[i]) \notin vis.edges
     /\ \A j \in 1..(i - 1) :
          ~(Touches(d.edges[j], nodeId) /\ EdgeId(d.edges[j]) = EdgeId(d.edges[i]))}

\* C2 amended: expandNeighborhood(x) adds the id of every edge touching x,
\* and both endpoints of each edge touching x whose id was not visible
\* before and is not carried by an earlier edge touching x; on nodes
\* {A,B,C} with edges A-B, B-C, selectEntity(A) then expandNeighborhood(B)
\* gives nodes {A,B,C} and both edges.
C2_ExpandAddsNewEdgesAndTheirEndpoints ==
  /\ lastOp.op = "handleExpandNextLevel" =>
       LET touching == TouchingEdges(fullData, lastOp.arg)
           fresh == NewlyShown(fullData, prev, lastOp.arg) IN
       /\ visibleEdgeIds = prev.edges \cup {EdgeId(e) : e \in touching}
       /\ visibleNodeIds = prev.nodes \cup {fullData.edges[i].source : i \in fresh}
                                       \cup {fullData.edges[i].target : i \in fresh}
  /\ (/\ lastOp.op = "handleExpandNextLevel"
      /\ lastOp.arg = "B"
      /\ fullData = DChain
      /\ prev = [nodes |-> {"A", "B"}, edges |-> {"A-r-B"}])
     => /\ visibleNodeIds = {"A", "B", "C"}
        /\ visibleEdgeIds = {"A-r-B", "B-r-C"}

\* C2 witness: the scenario of the claim, selectEntity(A) then expand(B)
C2_Witness ==
  /\ lastOp.op = "handleExpandNextLevel"
  /\ lastOp.arg = "B"
  /\ fullData = DChain
  /\ selectedEntityId = "A"
  /\ prev = [nodes |-> {"A", "B"}, edges |-> {"A-r-B"}]
  /\ visibleNodeIds = {"A", "B", "C"}

\* C3: expandNeighborhood is idempotent: from every reachable dataset and
\* VisibleSet and for every node id, expanding twice gives the same
\* VisibleSet as expanding once; right after an expansion, expanding the
\* same node again changes nothing.
C3_ExpandIdempotent ==
  /\ \A x \in AllIds :
       ExpandVisible(fullData, ExpandVisible(fullData, VisibleSet, x), x)
         = ExpandVisible(fullData, VisibleSet, x)
  /\ lastOp.op = "handleExpandNextLevel" =>
       ExpandVisible(fullData, VisibleSet, lastOp.arg) = VisibleSet

\* C3 witness: an expansion has just added nodes and edges
C3_Witness ==
  /\ lastOp.op = "handleExpandNextLevel"
  /\ prev.nodes # visibleNodeIds
  /\ prev.edges # visibleEdgeIds
  /\ \E x \in AllIds : ExpandVisible(fullData, VisibleSet, x) # VisibleSet

\* the handlers that reset the VisibleSet
ResetOps == {"init", "fetchGraph", "changeId", "handleEntityClick"}

\* C4: expandNeighborhood is monotonic for every node id, in the dataset or
\* not, and no handler other than loadSubject and selectEntity removes an
\* id from the VisibleSet.
C4_ExpandMonotonic ==
  /\ \A x \in AllIds :
       /\ visibleNodeIds \subseteq ExpandVisible(fullData, VisibleSet, x).nodes
       /\ visibleEdgeIds \subseteq ExpandVisible(fullData, VisibleSet, x).edges
  /\ lastOp.op \notin ResetOps =>
       /\ prev.nodes \subseteq visibleNodeIds
       /\ prev.edges \subseteq visibleEdgeIds

\* C4 witness: an expansion of a non-empty VisibleSet has made it larger
C4_Witness ==
  /\ lastOp.op = "handleExpandNextLevel"
  /\ prev.edges # {}
  /\ prev.nodes \subseteq visibleNodeIds
  /\ prev.nodes # visibleNodeIds
  /\ prev.edges # visibleEdgeIds

\* C5: when a fetch settles successfully the dataset is the fetched one,
\* the VisibleSet is empty and no type and no entity is selected.
C5_FetchSuccessLeavesCleanView ==
  lastOp.op = "fetchOk" =>
    /\ fullData = lastOp.data
    /\ visibleNodeIds = {}
    /\ visibleEdgeIds = {}
    /\ selectedType = Null
    /\ selectedEntityId = Null

\* C6: every visible node id is the id of a node of the current dataset and
\* every visible edge id is the id of an edge of the current dataset.
C6_VisibleSetWithinDataset ==
  /\ visibleNodeIds \subseteq NodeIdsOf(fullData)
  /\ visibleEdgeIds \subseteq EdgeIdsOf(fullData)

\* C7: every edge of `elements` has its id in the visible edge set and its
\* source and target among the nodes of `elements`.
C7_RenderedEdgesHaveRenderedEndpoints ==
  LET shownNodes == {n.id : n \in Range(elements.nodes)} IN
  \A e \in Range(elements.edges) :
    /\ e.id \in visibleEdgeIds
    /\ e.source \in shownNodes
    /\ e.target \in shownNodes

\* C8: when a fetch fails there is no dataset, an error message is set, the
\* loading flag is cleared, the VisibleSet is empty, and the failure itself
\* issues no request.
C8_FetchFailureLeavesEmptyErrorState ==
  lastOp.op = "fetchFail" =>
    /\ fullData = NoData
    /\ error # ""
    /\ ~loading
    /\ visibleNodeIds = {}
    /\ visibleEdgeIds = {}
    /\ Cardinality(pending) < fetchCount

(***************************************************************************)
(* Properties of the chat session engine                                   *)
(***************************************************************************)
\* the concatenation of a sequence of texts, in order
RECURSIVE Concatenation(_)
Concatenation(texts) ==
  IF texts = <<>> THEN <<>> ELSE Head(texts) \o Concatenation(Tail(texts))

LastMessage == messages[Len(messages)]

Hello == <<"H", "e", "l", "l", "o">>

\* C9 as stated: the text of the agent message appended at finalization is
\* the concatenation, in receipt order, of the deltas received in the turn,
\* and the empty-response placeholder if no token was received.
C9_FinalTextIsConcatenationOrEmptyPlaceholder ==
  chatOp.op \in {"done", "onerror"} =>
    /\ LastMessage.role = "agent"
    /\ LastMessage.text = IF received = <<>> THEN EmptyResponseText
                          ELSE Concatenation(received)

\* C9 amended: the text of the agent message appended at finalization is the
\* concatenation, in receipt order, of the deltas received in the turn when
\* that concatenation is not empty (and, after a connection error, is not the
\* empty-response placeholder); otherwise it is the empty-response
\* placeholder after done and the connection-failure message after a
\* connection error.
C9_FinalTextIsConcatenationOrPlaceholderOfTheEnding ==
  chatOp.op \in {"done", "onerror"} =>
    LET text == Concatenation(received) IN
    /\ LastMessage.role = "agent"
    /\ LastMessage.text =
         IF chatOp.op = "done"
           THEN (IF text = <<>> THEN EmptyResponseText ELSE text)
           ELSE (IF text \in {<<>>, EmptyResponseText} THEN ConnectionFailedText ELSE text)

\* C9 witness: tokens "Hel" and "lo", then a connection error: text "Hello"
C9_Witness ==
  /\ chatOp.op = "onerror"
  /\ received = <<<<"H", "e", "l">>, <<"l", "o">>>>
  /\ LastMessage.text = Hello

\* C10: a send (handleSend, sendQuickMessage) whose text is empty or
\* whitespace-only, or that is made while a turn is Streaming, changes
\* nothing: no message is appended, no connection is opened, and the open
\* connection and the StreamState are untouched.
C10_RejectedSendChangesNothing ==
  [][/\ (chatOp'.op = "handleSend" /\ (Trim(input) = <<>> \/ isStreaming))
          => ~chatOp'.accepted
     /\ (chatOp'.op = "sendQuickMessage" /\ isStreaming)
          => ~chatOp'.accepted
     /\ (chatOp'.op \in {"handleSend", "sendQuickMessage"} /\ chatOp'.accepted)
          => /\ Len(messages') = Len(messages) + 1
             /\ Trim(messages'[Len(messages')].text) # <<>>
             /\ Trim(sources'[Len(sources')].message) # <<>>
     /\ (chatOp'.op \in {"handleSend", "sendQuickMessage"} /\ ~chatOp'.accepted)
          => UNCHANGED <<messages, input, isStreaming, streamBuffer, streamTraces,
                         streamBufferRef, streamTracesRef, sessionId, eventSourceRef,
                         sources, received>>]_vars

\* C10 witness: a send with a non-empty text was rejected in the middle of a
\* turn that has already received a token
C10_Witness ==
  /\ chatOp.op = "handleSend"
  /\ ~chatOp.accepted
  /\ Trim(input) # <<>>
  /\ isStreaming
  /\ streamBufferRef # <<>>

(***************************************************************************)
(* Properties of a chat turn                                               *)
(***************************************************************************)
\* the connections that are open
OpenSources(srcs) == {i \in 1..Len(srcs) : srcs[i].open}

\* C11: an accepted send appends exactly one user message to the end of the
\* transcript and leaves the earlier messages as they were, opens exactly one
\* streaming connection, and leaves the engine Streaming with an empty text
\* buffer and an empty trace list.
C11_AcceptedSendAppendsUserMessageAndOpensOneStream ==
  [][(chatOp'.op \in {"handleSend", "sendQuickMessage"} /\ chatOp'.accepted)
       => /\ Len(messages') = Len(messages) + 1
          /\ SubSeq(messages', 1, Len(messages)) = messages
          /\ messages'[Len(messages')].role = "user"
          /\ Len(sources') = Len(sources) + 1
          /\ OpenSources(sources') = {Len(sources')}
          /\ eventSourceRef' = Len(sources')
          /\ isStreaming'
          /\ streamBufferRef' = <<>> /\ streamBuffer' = <<>>
          /\ streamTracesRef' = <<>> /\ streamTraces' = <<>>]_vars

\* C11 witness: the second send of a conversation has been accepted, after an
\* answer of the first turn
C11_Witness ==
  /\ chatOp.op \in {"handleSend", "sendQuickMessage"}
  /\ chatOp.accepted
  /\ Len(messages) = 3
  /\ messages[2].role = "agent"
  /\ messages[3].role = "user"
  /\ isStreaming

\* C12: when the connection fails before a done event, exactly one agent
\* message is appended; its text is the buffer accumulated so far, or a fixed
\* placeholder when the buffer is empty; its trace list is the traces
\* accumulated so far followed by exactly one synthetic entry of level
\* "error"; the connection is closed and the engine is Idle with StreamState
\* cleared.
C12_ConnectionErrorFinalizesTheBuffer ==
  [][chatOp'.op = "onerror"
       => /\ Len(messages') = Len(messages) + 1
          /\ SubSeq(messages', 1, Len(messages)) = messages
          /\ messages'[Len(messages')].role = "agent"
          /\ IF streamBufferRef = <<>>
               THEN messages'[Len(messages')].text
                      \in {EmptyResponseText, ConnectionFailedText}
               ELSE messages'[Len(messages')].text = streamBufferRef
          /\ messages'[Len(messages')].traces = Append(streamTracesRef, ErrorTrace)
          /\ ErrorTrace.level = "error"
          /\ OpenSources(sources') = {}
          /\ eventSourceRef' = 0
          /\ ~isStreaming'
          /\ streamBufferRef' = <<>> /\ streamBuffer' = <<>>
          /\ streamTracesRef' = <<>> /\ streamTraces' = <<>>]_vars

\* C13 as claimed: on a done event the connection is closed, one agent
\* message is appended carrying the citations of the event, its trace list is
\* the trace payload of the event whenever the event provides one and the
\* traces accumulated during the turn otherwise, StreamState is cleared and
\* the engine is Idle.
C13_DoneTakesItsTracePayloadWheneverProvided ==
  [][chatOp'.op = "done"
       => LET payload == chatOp'.payload
              last == messages'[Len(messages')] IN
          /\ Len(messages') = Len(messages) + 1
          /\ SubSeq(messages', 1, Len(messages)) = messages
          /\ last.role = "agent"
          /\ last.citations = payload.citations
          /\ last.traces = IF payload.trace # Undefined
                             THEN payload.trace[1] ELSE streamTracesRef
          /\ OpenSources(sources') = {}
          /\ eventSourceRef' = 0
          /\ ~isStreaming'
          /\ streamBufferRef' = <<>> /\ streamBuffer' = <<>>
          /\ streamTracesRef' = <<>> /\ streamTraces' = <<>>]_vars

\* C13 amended: as above, but the trace list is the trace payload of the
\* event only when the event provides a non-empty one; with no trace payload
\* or an empty one it is the traces accumulated during the turn.
C13_DoneTakesItsNonEmptyTracePayload ==
  [][chatOp'.op = "done"
       => LET payload == chatOp'.payload
              last == messages'[Len(messages')] IN
          /\ Len(messages') = Len(messages) + 1
          /\ SubSeq(messages', 1, Len(messages)) = messages
          /\ last.role = "agent"
          /\ last.citations = payload.citations
          /\ last.traces = IF payload.trace # Undefined /\ payload.trace[1] # <<>>
                             THEN payload.trace[1] ELSE streamTracesRef
          /\ OpenSources(sources') = {}
          /\ eventSourceRef' = 0
          /\ ~isStreaming'
          /\ streamBufferRef' = <<>> /\ streamBuffer' = <<>>
          /\ streamTracesRef' = <<>> /\ streamTraces' = <<>>]_vars

\* C13 witness: a done event with an empty trace payload has finalized a turn
\* in which a trace had been accumulated, and the message carries that trace
C13_Witness ==
  /\ chatOp.op = "done"
  /\ chatOp.payload.trace = Some(<<>>)
  /\ LastMessage.role = "agent"
  /\ LastMessage.traces # <<>>
  /\ ~isStreaming

(***************************************************************************)
(* Properties of stop, reset and the history panel                         *)
(***************************************************************************)
\* C14: in every reachable state at most one streaming connection is open,
\* and a connection that is open is the current one of the engine
\* (eventSourceRef): no connection that was opened is left open behind.
C14_AtMostOneOpenConnection ==
  /\ Cardinality(OpenSources(sources)) <= 1
  /\ \A i \in OpenSources(sources) : i = eventSourceRef

\* C14 witness: the new-conversation button was pressed in mid-turn, and the
\* connection of the turn is closed
C14_Witness ==
  /\ chatOp.op = "resetChat"
  /\ chatOp.accepted
  /\ Len(sources) >= 1
  /\ OpenSources(sources) = {}
  /\ eventSourceRef = 0

\* C15: stopStream closes the open connection if there is one, empties the
\* text buffer and the trace list, and sets the engine to Idle; it appends no
\* message (the new-conversation button, which calls it, leaves no message of
\* the partial turn); applied in Idle, or a second time, it changes nothing.
C15_StopDiscardsTheTurnAndIsIdempotent ==
  [][/\ LET st == stopStream(StreamState') IN
        /\ st.eventSourceRef = 0
        /\ OpenSources(st.sources) = {}
        /\ Len(st.sources) = Len(sources')
        /\ st.streamBufferRef = <<>> /\ st.streamBuffer = <<>>
        /\ st.streamTracesRef = <<>> /\ st.streamTraces = <<>>
        /\ ~st.isStreaming
        /\ stopStream(st) = st
        /\ (~isStreaming' /\ eventSourceRef' = 0) => st = StreamState'
     /\ chatOp'.op = "resetChat"
          => /\ eventSourceRef' = 0
             /\ OpenSources(sources') = {}
             /\ Len(sources') = Len(sources)
             /\ streamBufferRef' = <<>> /\ streamBuffer' = <<>>
             /\ streamTracesRef' = <<>> /\ streamTraces' = <<>>
             /\ ~isStreaming'
             /\ messages' = <<>>]_vars

\* C15 witness: the new-conversation button has stopped a turn that had
\* received a token, after two events in all, and no message is left
C15_Witness ==
  /\ chatOp.op = "resetChat"
  /\ chatOp.accepted
  /\ received # <<>>
  /\ eventCount = 2
  /\ messages = <<>>
  /\ ~isStreaming
  /\ streamBuffer = <<>>

\* C16: loadHistorySession(s) abandons the turn in flight first: from its
\* invocation on, no token, trace or finalization of that turn changes the
\* transcript; when it succeeds the transcript is exactly the mapped message
\* list of s, the session id and title are those of s, and the engine is Idle
\* with no open connection.
C16_LoadAbandonsTheTurnInFlight ==
  [][/\ (/\ chatOp'.op \in {"token", "trace", "done", "onerror"}
         /\ \E r \in requests :
              r.kind = "load" /\ r.turn # 0 /\ r.turn = eventSourceRef)
          => messages' = messages
     /\ chatOp'.op = "loadHistorySessionOk"
          => /\ messages' = mapHistoryMessages(HistoryMessages(chatOp'.id))
             /\ sessionId' = chatOp'.id
             /\ activeSessionTitle' =
                  IF SessionOf(chatOp'.id).title = "" THEN Null
                  ELSE SessionOf(chatOp'.id).title
             /\ ~isStreaming'
             /\ eventSourceRef' = 0
             /\ OpenSources(sources') = {}]_vars

\* an accepted send is the step from the unprimed to the primed state
AcceptedSend == chatOp'.op \in {"handleSend", "sendQuickMessage"} /\ chatOp'.accepted

\* the session_id parameter of the request opened by the step
AttachedSessionId == sources'[Len(sources')].session_id

\* C17: every streaming request opened by a send carries the current session
\* id of the engine when one is known and none when it is unknown; a send
\* that follows a successful loadHistorySession(s) attaches s, and a send that
\* follows a reset attaches none.
C17_SendAttachesTheCurrentSessionId ==
  [][/\ AcceptedSend
          => /\ Len(sources') = Len(sources) + 1
             /\ AttachedSessionId = IF sessionId \in {Null, ""} THEN Null ELSE sessionId
     /\ (AcceptedSend /\ chatOp.op = "loadHistorySessionOk")
          => AttachedSessionId = chatOp.id
     /\ (AcceptedSend /\ chatOp.op = "resetChat")
          => AttachedSessionId = Null
     /\ chatOp'.op = "loadHistorySessionOk" => sessionId' = chatOp'.id
     /\ chatOp'.op = "resetChat" => sessionId' = Null]_vars

\* C17 witness: the second session of the list was loaded, and the send that
\* followed carries its id
C17_Witness ==
  /\ chatOp.op = "sendQuickMessage"
  /\ chatOp.accepted
  /\ sessionId = "s2"
  /\ sources[Len(sources)].session_id = "s2"
  /\ Len(messages) = Len(mapHistoryMessages(HistoryMessages("s2"))) + 1

\* the meta event of the step carries a session id to adopt
AdoptingMeta ==
  /\ chatOp'.op = "meta"
  /\ chatOp'.payload.label = "session_id"
  /\ chatOp'.payload.value # ""

C19_DeleteWhileStreamingIsRejected ==
  [][(chatOp'.op = "deleteHistorySession" /\ isStreaming)
       => /\ ~chatOp'.accepted
          /\ requests' = requests
          /\ requestCount' = requestCount
          /\ historyError' = StreamingDeleteError
          /\ historyDeletingId' = historyDeletingId
          /\ UNCHANGED <<sessions, messages, sessionId, activeSessionTitle, isStreaming,
                         streamBuffer, streamTraces, streamBufferRef, streamTracesRef,
                         eventSourceRef, sources, storage>>]_vars

\* C19 witness: the delete button of the active session was pressed in
\* mid-turn and confirmed, and only the error message was set
C19_Witness ==
  /\ chatOp.op = "deleteHistorySession"
  /\ ~chatOp.accepted
  /\ chatOp.id = sessionId
  /\ isStreaming
  /\ eventSourceRef # 0
  /\ historyError = StreamingDeleteError
  /\ requests = {}

\* C20: when a DELETE request for session s succeeds, s is removed from the
\* cached session list and all other sessions stay; the transcript, session
\* id and title are cleared if and only if s is the active session at that
\* moment, and are unchanged otherwise, also when the active session was
\* switched by loadHistorySession while the request was pending.
C20_DeleteClearsExactlyTheActiveSession ==
  [][chatOp'.op = "deleteHistorySessionOk"
       => /\ sessions' = WithoutSession(sessions, chatOp'.id)
          /\ IF sessionId = chatOp'.id
               THEN messages' = <<>> /\ sessionId' = Null /\ activeSessionTitle' = Null
               ELSE UNCHANGED <<messages, sessionId, activeSessionTitle>>]_vars

(***************************************************************************)
(* Properties of the persisted snapshot, the history panel and the turns   *)
(***************************************************************************)
\* C21: fetchSessions, up to its await and after it, on success and on failure,
\* changes only the session list, the loading flag and the error of the
\* history panel: the transcript, the session id, the title, the StreamState,
\* the connection and the persisted snapshot are left as they were
C21_FetchSessionsTouchesOnlyTheSessionList ==
  [][chatOp'.op \in {"fetchSessions", "fetchSessionsOk", "fetchSessionsFail"}
       => /\ UNCHANGED <<messages, sessionId, activeSessionTitle, input>>
          /\ StreamState' = StreamState
          /\ UNCHANGED <<storage, historyOpen, historyDetailLoadingId, historyDeletingId>>]_vars

\* a list request fails in the middle of a turn that has received a token
C21_Witness ==
  /\ chatOp.op = "fetchSessionsFail"
  /\ historyError = "request failed: 500"
  /\ sessions = <<>>
  /\ isStreaming
  /\ Connected
  /\ streamBufferRef = <<"H", "e", "l">>
  /\ Len(messages) = 1

\* the three persisted fields of the state
CurrentState == Persisted(messages, sessionId, activeSessionTitle)

\* a stored item that the console itself could have written
WellFormed(raw) ==
  /\ raw.item = "json"
  /\ raw.messages # NotAnArray
  /\ \A i \in 1..Len(raw.messages) : IsSafeMessage(raw.messages[i])
  /\ raw.sessionId # NumberId
  /\ raw.activeSessionTitle # NumberId

\* C22: after every step the stored item is the snapshot of the current
\* transcript, session id and title; mounting the console on it (a reload)
\* gives back exactly these three and leaves the item as it is; and a
\* start-up on a well-formed item ends with the state and the item of before
C22_SnapshotFollowsTheStateAndSurvivesReload ==
  /\ storage = Snapshot(messages, sessionId, activeSessionTitle)
  /\ StartUp(storage).state = CurrentState
  /\ StartUp(storage).storage = storage
  /\ chatOp.op = "init" /\ WellFormed(chatOp.raw)
       => /\ CurrentState = Persisted(chatOp.raw.messages, chatOp.raw.sessionId,
                                      chatOp.raw.activeSessionTitle)
          /\ storage = chatOp.raw

\* the page has been reloaded after a session of the history was loaded
C22_Witness ==
  /\ chatOp.op = "init"
  /\ requestCount > 0
  /\ messages = mapHistoryMessages(HistoryMessages("s1"))
  /\ sessionId = "s1"
  /\ activeSessionTitle = "T1"
  /\ storage = chatOp.raw

\* a step of resetChat leaves no open connection, an Idle engine with an empty
\* StreamState, an empty transcript, no session id and no title, and a stored
\* item on which a reload restores nothing
ResetDiscardsEverything ==
  /\ OpenSources(sources') = {}
  /\ eventSourceRef' = 0
  /\ StreamState' = stopStream(StreamState)
  /\ CurrentState' = FirstRender
  /\ StartUp(storage').state = FirstRender

\* C23 as stated: after resetChat the connection is closed, the transcript is
\* empty, the session id and the title are unset, a reload restores nothing,
\* and the storage slot holds no item
C23_ResetClearsTheStorageSlot ==
  [][chatOp'.op = "resetChat" => ResetDiscardsEverything /\ storage' = NoItem]_vars

\* C23: after resetChat the connection is closed, the transcript is empty, the
\* session id and the title are unset, and a reload restores no message, no
\* session id and no title; the storage slot is not empty: it holds the
\* snapshot of the emptied state
C23_ResetLeavesTheEmptySnapshot ==
  [][chatOp'.op = "resetChat"
       => /\ ResetDiscardsEverything
          /\ storage' = Snapshot(<<>>, Null, Null)]_vars

\* a turn sent under the session id s1 has been stopped by resetChat
C23_Witness ==
  /\ chatOp.op = "resetChat"
  /\ chatOp.accepted
  /\ sources[Len(sources)].session_id = "s1"
  /\ CurrentState = FirstRender
  /\ storage # NoItem
  /\ StartUp(storage).state = FirstRender

\* a stored item that is malformed: a text that is no JSON, or a snapshot with
\* a field or an entry of a wrong type
Malformed(raw) == raw # NoItem /\ ~WellFormed(raw)

\* C24: a console mounted on a malformed item starts with an empty transcript,
\* no session id and no title: no part of the item is adopted
C24_MalformedSnapshotIsIgnored ==
  chatOp.op = "init" /\ Malformed(chatOp.raw) => CurrentState = FirstRender

\* C25: with no session switch, reset or delete, the transcript alternates
\* user message, agent message, ... in the order of submission: the k-th turn
\* owns position 2k-1 (its user message, the text that was sent) and, once it
\* has ended, position 2k (its one agent message); while a turn is Streaming
\* its user message is the last message
C25_TranscriptAlternatesInSubmissionOrder ==
  /\ Len(messages) = 2 * Len(sources) - (IF isStreaming THEN 1 ELSE 0)
  /\ \A i \in 1..Len(messages) :
       messages[i].role = IF i % 2 = 1 THEN "user" ELSE "agent"
  /\ \A k \in 1..Len(sources) :
       Trim(messages[2 * k - 1].text) = sources[k].message

\* two turns have ended, the second one by a connection error
C25_Witness ==
  /\ chatOp.op = "onerror"
  /\ Len(sources) = 2
  /\ Len(messages) = 4
  /\ ~isStreaming
  /\ messages[2].role = "agent"
  /\ messages[3].role = "user"

\* C26: no step of deleteHistorySession, before or after its await, changes
\* the transcript or the session id while a turn is Streaming
C26_DeleteNeverClearsUnderAnOpenConnection ==
  [][chatOp'.op \in {"deleteHistorySession", "deleteHistorySessionOk"} /\ isStreaming
       => UNCHANGED <<messages, sessionId>>]_vars

\* C27: at most one DELETE request per session is outstanding at any time
C27_AtMostOneDeletePerSession ==
  \A r1, r2 \in requests :
    r1.kind = "delete" /\ r2.kind = "delete" /\ r1.id = r2.id => r1 = r2

\* while the turn is open, the text buffer is the concatenation of the deltas
\* received so far, and no listener but 'trace' changes the trace list
BufferIsTheConcatenation ==
  /\ [](Connected => streamBufferRef = Concatenation(received)
                      /\ streamBuffer = streamBufferRef
                      /\ streamTraces = streamTracesRef)
  /\ [][chatOp'.op \in {"token", "meta"} => UNCHANGED streamTracesRef]_vars

\* C28 as stated: every trace event received in a turn, one with an empty step
\* included, is appended to the trace list, so that the list is the sequence
\* of the trace events in the order of receipt; the text buffer after k token
\* events is the concatenation of the first k deltas
C28_EveryTraceEventIsAppended ==
  /\ BufferIsTheConcatenation
  /\ [][chatOp'.op = "trace"
         => streamTracesRef' = Append(streamTracesRef, chatOp'.payload)]_vars

\* C28: every trace event received in a turn whose step is not empty is
\* appended to the trace list, and one whose step is empty is dropped, so that
\* the list is the sequence of the trace events with a step, in the order of
\* receipt and with repetitions; the text buffer after k token events is the
\* concatenation of the first k deltas
C28_TraceEventsWithAStepAreAppended ==
  /\ BufferIsTheConcatenation
  /\ [][chatOp'.op = "trace"
         => streamTracesRef' = IF chatOp'.payload.step = "" THEN streamTracesRef
                               ELSE Append(streamTracesRef, chatOp'.payload)]_vars

\* the same trace event has been received twice in a turn and is listed twice
C28_Witness ==
  /\ chatOp.op = "trace"
  /\ Connected
  /\ Len(streamTracesRef) = 2
  /\ streamTracesRef[1] = streamTracesRef[2]
  /\ streamTraces = streamTracesRef

\* the messages of a session that the console shows
Shown(items) == SelectSeq(items, LAMBDA item : item.role \in {"user", "assistant"})

\* C29: when a session is loaded, the transcript holds one message for each
\* message of the session whose role is user or assistant, in the same order,
\* under the role user or agent and with the trimmed content of that message
\* (the placeholder when it is empty); every message of another role is
\* dropped, and no message of the transcript has another role than user or agent
C29_HistoryKeepsUserAndAssistantInOrder ==
  [][chatOp'.op = "loadHistorySessionOk"
       => LET kept == Shown(chatOp'.json.messages) IN
          /\ Len(messages') = Len(kept)
          /\ \A i \in 1..Len(kept) :
               /\ messages'[i].role = IF kept[i].role = "assistant" THEN "agent" ELSE "user"
               /\ messages'[i].text =
                    IF kept[i].content = Undefined \/ Trim(kept[i].content[1]) = <<>>
                      THEN EmptyResponseText ELSE Trim(kept[i].content[1])
          /\ \A i \in 1..Len(messages') : messages'[i].role \in {"user", "agent"}]_vars

\* a session of a system, an assistant and a user message has been loaded:
\* the transcript is the agent message followed by the user message
C29_Witness ==
  /\ chatOp.op = "loadHistorySessionOk"
  /\ Len(chatOp.json.messages) = 3
  /\ chatOp.json.messages[1].role = "system"
  /\ chatOp.json.messages[2].role = "assistant"
  /\ chatOp.json.messages[3].role = "user"
  /\ Len(messages) = 2
  /\ messages[1].role = "agent"
  /\ messages[1].text = EmptyResponseText
  /\ messages[2].role = "user"
  /\ messages[2].text = <<"h", "i">>

\* the number of agent messages of a transcript
AgentCount(ms) == Cardinality({i \in 1..Len(ms) : ms[i].role = "agent"})

\* a step of the done or the error listener ends the turn of the connection
\* that was open: it closes that connection and appends one agent message
\* after the transcript of before
FinalizesTheTurn ==
  /\ Connected
  /\ ~sources'[eventSourceRef].open
  /\ eventSourceRef' = 0
  /\ Len(messages') = Len(messages) + 1
  /\ SubSeq(messages', 1, Len(messages)) = messages
  /\ messages'[Len(messages')].role = "agent"
  /\ ~isStreaming'

\* C30: over a transport that delivers a done event or a connection error to
\* every open connection, a Streaming turn always returns to Idle; a turn is
\* finalized exactly once when it ends by done or error: that step appends
\* one agent message and closes the connection, a closed connection is never
\* open again (no done, error or token reaches it), and no other step adds an
\* agent message
C30_EveryTurnEndsAndIsFinalizedOnce ==
  /\ isStreaming ~> ~isStreaming
  /\ [][/\ chatOp'.op \in {"done", "onerror"} => FinalizesTheTurn
        /\ chatOp'.op \notin {"done", "onerror"}
             => AgentCount(messages') <= AgentCount(messages)
        /\ \A i \in 1..Len(sources) : ~sources[i].open => ~sources'[i].open]_vars

\* a second turn has ended by a connection error after a token, the first one
\* having been finalized before
C30_Witness ==
  /\ chatOp.op = "onerror"
  /\ Len(sources) = 2
  /\ OpenSources(sources) = {}
  /\ ~isStreaming
  /\ AgentCount(messages) = 2
  /\ received # <<>>

(***************************************************************************)
(* Properties of failures, of races and of the result list                 *)
(***************************************************************************)
\* C31: no malformed payload or body makes an exception leave a listener or a
\* handler; a malformed token adds nothing to the text buffer; a session
\* detail of an unexpected shape sets the history error, clears the loading
\* marker and leaves a turn in flight open, so that it can still be finalized
C31_NoCollaboratorFailureEscapes ==
  [][/\ chatOp'.op \in {"tokenMalformed", "doneMalformed"}
          => ~chatOp'.uncaught /\ UNCHANGED streamBufferRef
     /\ chatOp'.op = "loadHistorySessionOkMalformed"
          => /\ historyError' # ""
             /\ historyDetailLoadingId' = Null
             /\ isStreaming => isStreaming' /\ OpenSources(sources') # {}]_vars

\* C32: handleTypeClick(t) selects t when t is not selected and selects
\* nothing when t is selected; it starts no fetch and leaves the dataset, the
\* VisibleSet, the selected entity, the loading flag and the error unchanged;
\* applied twice with the same t to a selection that is none or t it gives
\* that selection back; the selection is one value, none or the name of a type
C32_TypeClickTogglesOneType ==
  /\ [](\A t \in AvailableTypes(fullData) : \A sel \in {Null, t} :
          ToggleType(ToggleType(sel, t), t) = sel)
  /\ [](selectedType \in STRING)
  /\ [][lastOp'.op = "handleTypeClick"
         => /\ lastOp'.arg # selectedType => selectedType' = lastOp'.arg
            /\ lastOp'.arg = selectedType => selectedType' = Null
            /\ UNCHANGED <<id, fullData, loading, error, selectedEntityId,
                           visibleNodeIds, visibleEdgeIds, pending, fetchCount>>]_vars

\* the selected type has been clicked again while an entity is shown
C32_Witness ==
  /\ lastOp.op = "handleTypeClick"
  /\ lastOp.arg \in AvailableTypes(fullData)
  /\ selectedType = Null
  /\ selectedEntityId # Null
  /\ visibleNodeIds # {}

\* a failed DELETE leaves the session list, the transcript, the session id,
\* the title, the StreamState and the stored snapshot as they were and clears
\* the marker of the pending deletion
FailedDeleteChangesNothing ==
  /\ UNCHANGED <<sessions, messages, sessionId, activeSessionTitle, storage>>
  /\ StreamState' = StreamState
  /\ historyDeletingId' = Null

\* C33 as stated: when the DELETE fails, by a network error or by an error
\* response, nothing but the history error and the marker changes, and the
\* history error is the detail of the server when it gave one and the fixed
\* message otherwise
C33_FailedDeleteShowsDetailOrFixedMessage ==
  [][chatOp'.op = "deleteHistorySessionFail"
       => /\ FailedDeleteChangesNothing
          /\ historyError' = IF Falsy(chatOp'.failure.detail) THEN DeleteFailedText
                              ELSE chatOp'.failure.detail]_vars

\* C33: when the DELETE fails nothing but the history error and the marker
\* changes; the history error is the detail of an error response that has
\* one, the fixed message for an error response without detail, and the
\* message of the exception of fetch when there is no response at all
C33_FailedDeleteShowsDetailFixedOrFetchMessage ==
  [][chatOp'.op = "deleteHistorySessionFail"
       => /\ FailedDeleteChangesNothing
          /\ chatOp'.failure.response /\ ~Falsy(chatOp'.failure.detail)
               => historyError' = chatOp'.failure.detail
          /\ chatOp'.failure.response /\ Falsy(chatOp'.failure.detail)
               => historyError' = DeleteFailedText
          /\ ~chatOp'.failure.response => historyError' = NetworkErrorText]_vars

\* a DELETE has failed with a detail after another session was loaded
C33_Witness ==
  /\ chatOp.op = "deleteHistorySessionFail"
  /\ chatOp.failure.detail = "session is locked"
  /\ historyError = "session is locked"
  /\ chatOp.id = "s1"
  /\ sessionId = "s2"
  /\ messages # <<>>
  /\ Len(sessions) = 2
  /\ historyDeletingId = Null

\* C34: after every handler the engine is Streaming exactly when a
\* connection is open, the open connection being the one of eventSourceRef,
\* and an Idle engine has an empty text buffer and an empty trace list, in
\* the refs and in the rendered state
C34_StreamingIffConnectedAndIdleIsEmpty ==
  /\ isStreaming <=> Connected
  /\ OpenSources(sources) = IF eventSourceRef = 0 THEN {} ELSE {eventSourceRef}
  /\ ~isStreaming => /\ streamBufferRef = <<>>
                     /\ streamBuffer = <<>>
                     /\ streamTracesRef = <<>>
                     /\ streamTraces = <<>>

\* a second turn that had received a token and a trace was stopped by resetChat
C34_Witness ==
  /\ chatOp.op = "resetChat"
  /\ chatOp.accepted
  /\ Len(sources) = 2
  /\ eventCount = 2
  /\ received # <<>>
  /\ ~isStreaming
  /\ streamTraces = <<>>
  /\ OpenSources(sources) = {}

\* the steps of the listeners of an EventSource
ListenerOps == {"token", "trace", "meta", "done", "onerror"}

\* C35: resetChat and a successful loadHistorySession leave no connection
\* open; a connection that is closed is never open again and a listener runs
\* only for the connection that is open, so no event of an abandoned
\* connection changes the engine; while no connection is open the session id
\* changes only by a load, a reset or the completion of a delete: after a
\* switch it is the id of the loaded session, after a reset it is unset
C35_AbandonedConnectionIsSilent ==
  [][/\ chatOp'.op \in {"resetChat", "loadHistorySessionOk"}
          => OpenSources(sources') = {} /\ eventSourceRef' = 0
     /\ chatOp'.op = "loadHistorySessionOk" => sessionId' = chatOp'.id
     /\ chatOp'.op = "resetChat" => sessionId' = Null
     /\ \A i \in 1..Len(sources) : ~sources[i].open => ~sources'[i].open
     /\ chatOp'.op \in ListenerOps => Connected
     /\ OpenSources(sources) = {} /\ sessionId' # sessionId
          => chatOp'.op \in {"loadHistorySessionOk", "resetChat",
                             "deleteHistorySessionOk"}]_vars

\* a successful load has closed the connection of a turn in flight that had
\* announced another session id
C35_Witness ==
  /\ chatOp.op = "loadHistorySessionOk"
  /\ chatOp.accepted
  /\ chatOp.id = "s2"
  /\ sessionId = "s2"
  /\ eventCount >= 1
  /\ OpenSources(sources) = {}
  /\ ~isStreaming

\* C36: when a fetch is started for a subject while an earlier fetch is still
\* in flight, then once every fetch has settled the dataset shown is the one
\* answered for the subject requested last, and the loading flag is false
\* only while no fetch is outstanding.
C36_LastRequestedSubjectWins ==
  /\ lastOp.op = "fetchOk" /\ pending = {} => lastOp.arg = id /\ fullData = lastOp.data
  /\ ~loading => pending = {}

\* C37: when a load of session B is requested while the load of session A is
\* pending, then after both responses have arrived, in either order, the
\* transcript, the session id and the title are those of B: when the response
\* to the earlier request arrives right after the response to the later one
\* and no load is left pending, it changes none of the three
C37_LastRequestedSessionWins ==
  [][/\ chatOp.op = "loadHistorySessionOk"
     /\ chatOp'.op = "loadHistorySessionOk"
     /\ chatOp'.n < chatOp.n
     /\ \A r \in requests' : r.kind # "load"
     => /\ sessionId' = chatOp.id
        /\ messages' = mapHistoryMessages(chatOp.json.messages)
        /\ activeSessionTitle' = activeSessionTitle]_vars

\* C38: a step in which the load of a session fails leaves the transcript,
\* the session id, the title, the StreamState, the connection and the stored
\* snapshot as they were, sets the history error and clears the loading
\* marker; a turn in flight at that step still ends, and it ends by a done
\* event or a connection error that finalizes it
C38_FailedLoadChangesNothing ==
  /\ (chatOp.op = "loadHistorySessionFail" /\ isStreaming) ~> ~isStreaming
  /\ [][/\ chatOp'.op = "loadHistorySessionFail"
             => /\ UNCHANGED <<messages, sessionId, activeSessionTitle, input>>
                /\ StreamState' = StreamState
                /\ UNCHANGED <<eventSourceRef, sources, storage, historyOpen, sessions>>
                /\ historyError' \in LoadErrors
                /\ historyDetailLoadingId' = Null
        /\ isStreaming /\ ~isStreaming' => chatOp'.op \in {"done", "onerror"}
        /\ chatOp'.op \in {"done", "onerror"} => FinalizesTheTurn]_vars

\* the load of s2 is refused by the network in the middle of a turn that has
\* received a token
C38_Witness ==
  /\ chatOp.op = "loadHistorySessionFail" /\ chatOp.id = "s2"
  /\ historyError = NetworkErrorText
  /\ historyDetailLoadingId = Null
  /\ isStreaming /\ Connected
  /\ streamBufferRef = <<"H", "e", "l">>
  /\ Len(messages) = 1
  /\ historyOpen

\* the parameter is absent, empty, or not a finite number
NoUsableNumber(value) ==
  \/ ~value.present
  \/ value.text = <<>>
  \/ ~IsFinite(Number(value))

\* C39: clampInt gives the fallback when the parameter is absent, empty or
\* not a finite number, and floor(value) clamped into [min, max] otherwise:
\* the result list uses page 1 and page size 10 when the query has no page
\* and no page_size, requests that page and size, and both are integers
\* within their ranges
C39_ClampIntFallsBackOrClamps ==
  /\ NoUsableNumber(searchParams.page) => page = 1
  /\ NoUsableNumber(searchParams.page_size) => pageSize = 10
  /\ ~NoUsableNumber(searchParams.page)
       => page = MathMin(10000, MathMax(1, Floor(Number(searchParams.page))))
  /\ ~NoUsableNumber(searchParams.page_size)
       => pageSize = MathMin(100, MathMax(1, Floor(Number(searchParams.page_size))))
  /\ page \in 1..10000
  /\ pageSize \in 1..100
  /\ listRequest = [page |-> page, page_size |-> pageSize]

====
